---- MODULE Spec2Model ----
(***************************************************************************)
(* Model of the AI context and memory subsystem of alex-backend:           *)
(*   AICache / AIService   (src/src/services/ai_service.py)                *)
(*   PromptTemplates       (src/src/services/prompts.py)                   *)
(*   provider adapters     (src/src/services/ai_providers/*.py)            *)
(*   MemoryService         (src/src/services/memory_service.py)            *)
(*                                                                         *)
(* Text is kept exact: a string is the sequence of its maximal runs of     *)
(* equal characters, so that texts of 50,000 characters stay small while   *)
(* equality, length and concatenation are those of Python strings.         *)
(***************************************************************************)
EXTENDS Integers, Sequences, FiniteSets, TLC

VARIABLES
    cache,          \* AICache.cache: key -> [response, timestamp]
    now,            \* the reading of time.time()
    stored,         \* history: <<prompt, model>> -> what AICache.set stored for that pair, until
                    \* a later set under the same key or a clear() takes its place
    enable_cache,   \* AIService.enable_cache
    provider_name,  \* AIService.provider_name
    last,           \* the last operation: its arguments, its outcome, the state it started from
    conversations,  \* the rows of ConversationHistory
    memories,       \* the rows of UserMemory
    session_cache,  \* MemoryService.session_cache: user_id -> session id
    turns,          \* history: the turns saved and not cleared since, in the order of the calls
    saved,          \* history: <<user_id, memory_type, key>> -> what the latest save_memory gave
    mlast,          \* the last operation of MemoryService
    users,          \* the rows of User
    tasks,          \* the rows of Task
    shares,         \* the rows of TaskShare
    procs,          \* the requests in progress: where each stands and what it holds
    plast,          \* the last call of a provider adapter
    stream          \* the response stream a stream_chat generator reads, and what it yielded

aivars == <<cache, stored, enable_cache, provider_name, last>>
dbvars == <<users, tasks, shares, procs>>
memvars == <<conversations, memories, session_cache, turns, saved, mlast, dbvars>>
provvars == <<plast, stream>>
vars == <<cache, now, stored, enable_cache, provider_name, last, memvars, provvars>>

----------------------------------------------------------------------------
(* Strings *)

Run(ch, k) == [c |-> ch, n |-> k]

\* Python's None where a str is optional; no string holds a run of length 0
None == <<Run("None", 0)>>

\* the truth value Python gives an Optional[str]: None and '' are false
Truthy(s) == s # None /\ s # <<>>

\* a + b on str
Cat(a, b) ==
    IF a = <<>> THEN b
    ELSE IF b = <<>> THEN a
    ELSE IF a[Len(a)].c = b[1].c
         THEN SubSeq(a, 1, Len(a) - 1) \o <<Run(b[1].c, a[Len(a)].n + b[1].n)>> \o Tail(b)
         ELSE a \o b

\* the str written character by character
RECURSIVE Lit(_)
Lit(cs) ==
    IF cs = <<>> THEN <<>>
    ELSE Cat(Lit(SubSeq(cs, 1, Len(cs) - 1)), <<Run(cs[Len(cs)], 1)>>)

\* the str of k copies of one character
Fill(ch, k) == IF k = 0 THEN <<>> ELSE <<Run(ch, k)>>

\* len(s)
RECURSIVE StrLen(_)
StrLen(s) == IF s = <<>> THEN 0 ELSE s[1].n + StrLen(Tail(s))

LowerChar(ch) ==
    CASE ch = "A" -> "a"
      [] ch = "B" -> "b"
      [] ch = "D" -> "d"
      [] ch = "R" -> "r"
      [] OTHER -> ch

\* s.lower()
RECURSIVE Lower(_)
Lower(s) ==
    IF s = <<>> THEN <<>>
    ELSE Cat(Lower(SubSeq(s, 1, Len(s) - 1)), <<Run(LowerChar(s[Len(s)].c), s[Len(s)].n)>>)

\* s.replace(' ', '_')
RECURSIVE ReplaceSpaces(_)
ReplaceSpaces(s) ==
    IF s = <<>> THEN <<>>
    ELSE Cat(ReplaceSpaces(SubSeq(s, 1, Len(s) - 1)),
             <<Run(IF s[Len(s)].c = " " THEN "_" ELSE s[Len(s)].c, s[Len(s)].n)>>)

UpperChar(ch) ==
    CASE ch = "a" -> "A"
      [] ch = "b" -> "B"
      [] ch = "d" -> "D"
      [] ch = "r" -> "R"
      [] ch = "u" -> "U"
      [] OTHER -> ch

\* s.capitalize(): the first character upper-cased, the rest lower-cased
Capitalize(s) ==
    IF s = <<>> THEN <<>>
    ELSE Cat(<<Run(UpperChar(s[1].c), 1)>>,
             Lower(Cat(Fill(s[1].c, s[1].n - 1), Tail(s))))

\* s[:k]
RECURSIVE Take(_, _)
Take(s, k) ==
    IF k <= 0 \/ s = <<>> THEN <<>>
    ELSE IF s[1].n >= k THEN <<Run(s[1].c, k)>>
    ELSE <<s[1]>> \o Take(Tail(s), k - s[1].n)

\* the characters of s, one by one
RECURSIVE Chars(_)
Chars(s) ==
    IF s = <<>> THEN <<>>
    ELSE [i \in 1..s[1].n |-> s[1].c] \o Chars(Tail(s))

Whitespace == {" ", "\n", "\t"}

\* s.split(): the maximal runs of non-whitespace characters, in order
RECURSIVE Split(_)
Split(s) ==
    IF s = <<>> THEN <<>>
    ELSE IF s[1].c \in Whitespace THEN Split(Tail(s))
    ELSE LET stops == {i \in 1..Len(s) : s[i].c \in Whitespace}
             stop == IF stops = {} THEN Len(s) + 1
                     ELSE CHOOSE i \in stops : \A j \in stops : i <= j
         IN  <<SubSeq(s, 1, stop - 1)>> \o Split(SubSeq(s, stop, Len(s)))

\* "sep".join(parts)
RECURSIVE Join(_, _)
Join(sep, parts) ==
    IF parts = <<>> THEN <<>>
    ELSE IF Len(parts) = 1 THEN parts[1]
    ELSE Cat(Cat(parts[1], sep), Join(sep, Tail(parts)))

\* xs[:k] and xs[-k:] of a list
FirstK(xs, k) == SubSeq(xs, 1, IF Len(xs) < k THEN Len(xs) ELSE k)
LastK(xs, k) == SubSeq(xs, IF Len(xs) < k THEN 1 ELSE Len(xs) - k + 1, Len(xs))

----------------------------------------------------------------------------
(* AICache *)

\* AICache.__init__: ttl=3600
Ttl == 3600

\* the instants at which the clock is read: an entry stored at 0 is read at the ages
\* ttl - 1 and ttl, one stored at ttl - 1 at the age 1
Instants == {0, Ttl - 1, Ttl}

\* a response dict: answers and model are the request the provider answered with it,
\* agent is the key execute_agent adds; NoResp stands for None
NoAgent == None
NoResp == [answers |-> None, model |-> None, provider |-> "none", agent |-> NoAgent]
MkResp(prompt, model_name, prov) ==
    [answers |-> prompt, model |-> model_name, provider |-> prov, agent |-> NoAgent]

EmptyCache == [k \in {} |-> [response |-> NoResp, timestamp |-> 0]]

\* hashlib.md5(content.encode()).hexdigest(): a digest is named by the text it
\* digests, MD5 being taken as free of collisions on the texts of the model
Md5Hex(content) == [md5 |-> content]

\* AICache._generate_key
GenerateKey(prompt, model) ==
    Md5Hex(Cat(Cat(model, Lit(<<":">>)), prompt))

Without(c, key) == [k \in DOMAIN c \ {key} |-> c[k]]

\* get with the expiry test dropped
CacheGet_NoExpiry(c, prompt, model, t) ==
    LET key == GenerateKey(prompt, model) IN
    IF key \in DOMAIN c
    THEN [cache |-> c, value |-> c[key].response]
    ELSE [cache |-> c, value |-> NoResp]

\* get with the expiry test the wrong way round
CacheGet_Inverted(c, prompt, model, t) ==
    LET key == GenerateKey(prompt, model) IN
    IF key \in DOMAIN c
    THEN IF t - c[key].timestamp >= Ttl
         THEN [cache |-> c, value |-> c[key].response]
         ELSE [cache |-> Without(c, key), value |-> NoResp]
    ELSE [cache |-> c, value |-> NoResp]

\* AICache.get: the cache it leaves and the value it returns (NoResp for None)
CacheGet(c, prompt, model, t) ==
    LET key == GenerateKey(prompt, model) IN
    IF key \in DOMAIN c
    THEN IF t - c[key].timestamp < Ttl
         THEN [cache |-> c, value |-> c[key].response]
         ELSE [cache |-> Without(c, key), value |-> NoResp]
    ELSE [cache |-> c, value |-> NoResp]

\* AICache.set
CacheSet(c, prompt, model, response, t) ==
    LET key == GenerateKey(prompt, model) IN
    [k \in DOMAIN c \cup {key} |->
        IF k = key THEN [response |-> response, timestamp |-> t] ELSE c[k]]

\* AICache.clear
CacheClear(c) == EmptyCache

\* AICache.stats
CacheStats(c) == [size |-> Cardinality(DOMAIN c), ttl |-> Ttl]

----------------------------------------------------------------------------
(* PromptTemplates *)

\* the fixed text of a template, before and after its placeholders, is one symbol each
Text(name) == <<Run(name, 1)>>

Benchmarking == Lit(<<"b","e","n","c","h","m","a","r","k","i","n","g">>)
PersonaGeneration ==
    Lit(<<"p","e","r","s","o","n","a","_","g","e","n","e","r","a","t","i","o","n">>)
DataAnalysis == Lit(<<"d","a","t","a","_","a","n","a","l","y","s","i","s">>)
ReportWriting == Lit(<<"r","e","p","o","r","t","_","w","r","i","t","i","n","g">>)

\* PromptTemplates.AGENTS: the names that have a template
AgentKeys == {Benchmarking, PersonaGeneration, DataAnalysis, ReportWriting}

\* AGENTS[key].format(context=context)
AgentTemplate(key, context) ==
    LET head == CASE key = Benchmarking -> Text("<You are a benchmarking specialist. Context: >")
                  [] key = PersonaGeneration -> Text("<You are an expert in personas. Context: >")
                  [] key = DataAnalysis -> Text("<You are a data analyst. Context: >")
                  [] OTHER -> Text("<You are a professional report writer. Context: >")
    IN  Cat(Cat(head, context), Text("<Please provide:>"))

\* the lookup without lower() and replace()
GetAgentPrompt_NoNormalise(agent_name, context) ==
    IF agent_name \in AgentKeys
    THEN [ok |-> TRUE, prompt |-> AgentTemplate(agent_name, context)]
    ELSE [ok |-> FALSE, prompt |-> None]

\* PromptTemplates.get_agent_prompt: ok is false where it raises ValueError
GetAgentPrompt(agent_name, context) ==
    LET agent_key == ReplaceSpaces(Lower(agent_name)) IN
    IF agent_key \in AgentKeys
    THEN [ok |-> TRUE, prompt |-> AgentTemplate(agent_key, context)]
    ELSE [ok |-> FALSE, prompt |-> None]

\* PromptTemplates.get_task_prompt('summarize', content=content)
SummarizePrompt(content) ==
    Cat(Cat(Text("<Text to summarize:>"), content), Text("<Summary:>"))

\* PromptTemplates.get_chat_prompt('task_context', ...)
TaskContextPrompt(question, task_data) ==
    Cat(Cat(Cat(Cat(Cat(Cat(Cat(Cat(Cat(Cat(
        Text("<Title: >"), task_data.title),
        Text("<Description: >")), task_data.description),
        Text("<Status: >")), task_data.status),
        Text("<Priority: >")), task_data.priority),
        Text("<User question: >")), question),
        Text("<Your response:>"))

----------------------------------------------------------------------------
(* Provider adapters *)

\* Config.AI_MODEL, which AIService._initialize_provider hands to either provider
Phi3 == Lit(<<"p","h","i","3">>)
DefaultModel(prov) == Phi3

\* Config.AI_TIMEOUT, which AIService._initialize_provider hands to either provider as
\* the timeout of the calls that pass none
AI_TIMEOUT == 30

\* what the HTTP request of one provider call meets
NetOutcomes ==
    {[kind |-> "ok", status |-> 200, body |-> "json"],
     [kind |-> "timeout", status |-> 0, body |-> "none"],
     [kind |-> "refused", status |-> 0, body |-> "none"],
     [kind |-> "http_error", status |-> 429, body |-> "json"]}

Raised(code, tmo) == [ok |-> FALSE, status |-> code, response |-> NoResp, timeout |-> tmo]

\* an exception that is no APIError leaves the call: it carries no status_code. In
\* LMStudioProvider.chat it is the JSONDecodeError of e.response.json() on a body that
\* is not JSON, raised inside the handler of HTTPError
Escaped(tmo) == [ok |-> FALSE, status |-> 0, response |-> NoResp, timeout |-> tmo]

\* OllamaProvider.chat; kw_timeout = 0 when the caller passes no timeout
OllamaChat(prompt, model, kw_timeout, net) ==
    LET model_name == IF Truthy(model) THEN model ELSE DefaultModel("ollama")
        timeout == IF kw_timeout # 0 THEN kw_timeout ELSE AI_TIMEOUT
    IN  CASE net.kind = "ok" ->
                [ok |-> TRUE, status |-> 200, timeout |-> timeout,
                 response |-> MkResp(prompt, model_name, "ollama")]
          [] net.kind = "timeout" -> Raised(504, timeout)
          [] net.kind = "refused" -> Raised(503, timeout)
          [] OTHER -> Raised(500, timeout)

\* LMStudioProvider.chat
LMStudioChat(prompt, model, kw_timeout, net) ==
    LET model_name == IF Truthy(model) THEN model ELSE DefaultModel("lmstudio")
        timeout == IF kw_timeout # 0 THEN kw_timeout ELSE AI_TIMEOUT
    IN  CASE net.kind = "ok" ->
                [ok |-> TRUE, status |-> 200, timeout |-> timeout,
                 response |-> MkResp(prompt, model_name, "lmstudio")]
          [] net.kind = "timeout" -> Raised(504, timeout)
          [] net.kind = "refused" -> Raised(503, timeout)
          [] net.kind = "http_error" /\ net.body = "text" -> Escaped(timeout)
          [] OTHER -> Raised(net.status, timeout)

\* self.provider.chat(...), the provider being the one _initialize_provider built
ProviderChat(prov, prompt, model, kw_timeout, net) ==
    IF prov = "ollama"
    THEN OllamaChat(prompt, model, kw_timeout, net)
    ELSE LMStudioChat(prompt, model, kw_timeout, net)

\* OpenAIProvider.chat: whatever the client raises becomes APIError 500; the dict it
\* returns has no 'provider' key
OpenAIChat(prompt, model, kw_timeout, net) ==
    LET model_name == IF Truthy(model) THEN model ELSE DefaultModel("openai")
        timeout == IF kw_timeout # 0 THEN kw_timeout ELSE AI_TIMEOUT
    IN  IF net.kind = "ok"
        THEN [ok |-> TRUE, status |-> 200, timeout |-> timeout,
              response |-> MkResp(prompt, model_name, "absent")]
        ELSE Raised(500, timeout)

\* chat of one of the three adapters
AdapterChat(prov, prompt, model, kw_timeout, net) ==
    CASE prov = "ollama" -> OllamaChat(prompt, model, kw_timeout, net)
      [] prov = "lmstudio" -> LMStudioChat(prompt, model, kw_timeout, net)
      [] OTHER -> OpenAIChat(prompt, model, kw_timeout, net)

\* the models the server lists when it answers
ServerModels == <<Lit(<<"l","l","a","m","a","3">>)>>

\* OllamaProvider.get_models
OllamaGetModels(net) ==
    IF net.kind = "ok" THEN [raised |-> FALSE, models |-> ServerModels]
    ELSE [raised |-> FALSE, models |-> <<DefaultModel("ollama")>>]

\* LMStudioProvider.get_models, which is get_available_models
LMStudioGetModels(net) ==
    IF net.kind = "ok" THEN [raised |-> FALSE, models |-> ServerModels]
    ELSE [raised |-> FALSE, models |-> <<>>]

\* OpenAIProvider.list_models
OpenAIListModels(net) ==
    IF net.kind = "ok" THEN [raised |-> FALSE, models |-> ServerModels]
    ELSE [raised |-> FALSE, models |-> <<>>]

AdapterGetModels(prov, net) ==
    CASE prov = "ollama" -> OllamaGetModels(net)
      [] prov = "lmstudio" -> LMStudioGetModels(net)
      [] OTHER -> OpenAIListModels(net)

\* the lines of a streamed response, as response.iter_lines() hands them over:
\*   blank      an empty line
\*   chunk      a well-formed chunk that carries the fragment text
\*   malformed  a chunk that json.loads rejects
\*   done       the end marker: {"done": true, "response": ""} of Ollama,
\*              'data: [DONE]' of LM Studio
Line(kind, text) == [kind |-> kind, text |-> text]

\* a stream: the lines the provider sends, how many the generator has read, what it
\* has yielded, and whether it is open, ended (StopIteration) or raised
NoStream == [provider |-> "none", lines |-> <<>>, pos |-> 0, yielded |-> <<>>,
             state |-> "none"]
OpenStream(prov, lines) ==
    [provider |-> prov, lines |-> lines, pos |-> 0, yielded |-> <<>>, state |-> "open"]

\* one turn of the loop of OllamaProvider.stream_chat: json.loads is outside any try
\* that catches its JSONDecodeError, and 'done' is not looked at
OllamaStreamStep(s) ==
    IF s.pos = Len(s.lines) THEN [s EXCEPT !.state = "ended"]
    ELSE LET line == s.lines[s.pos + 1] IN
         CASE line.kind = "blank" -> [s EXCEPT !.pos = @ + 1]
           [] line.kind = "malformed" -> [s EXCEPT !.pos = @ + 1, !.state = "raised"]
           [] line.kind = "done" ->
                [s EXCEPT !.pos = @ + 1, !.yielded = Append(@, "")]
           [] OTHER -> [s EXCEPT !.pos = @ + 1, !.yielded = Append(@, line.text)]

\* one turn of the loop of LMStudioProvider.stream_chat
LMStudioStreamStep(s) ==
    IF s.pos = Len(s.lines) THEN [s EXCEPT !.state = "ended"]
    ELSE LET line == s.lines[s.pos + 1] IN
         CASE line.kind = "blank" -> [s EXCEPT !.pos = @ + 1]
           [] line.kind = "malformed" -> [s EXCEPT !.pos = @ + 1]
           [] line.kind = "done" -> [s EXCEPT !.pos = @ + 1, !.state = "ended"]
           [] OTHER -> [s EXCEPT !.pos = @ + 1, !.yielded = Append(@, line.text)]

StreamStep(s) ==
    IF s.provider = "ollama" THEN OllamaStreamStep(s) ELSE LMStudioStreamStep(s)

\* the record of the last call of an adapter
NoProviderCall ==
    [op |-> "none", provider |-> "none", net |-> "none", http |-> 0, status |-> 0,
     raised |-> FALSE, models |-> <<>>]

FreshProviders ==
    /\ plast = NoProviderCall
    /\ stream = NoStream

----------------------------------------------------------------------------
(* AIService *)

\* what a call of the service leaves: the cache, the value returned (NoResp when it
\* raises), whether that value is the dict of the cache or one the provider just made,
\* the status (200, or the status_code of the APIError), the prompt sent, the timeout
\* of the provider call, and how often it called the provider, AICache.get, AICache.set
Outcome(c, v, from, st, p, tmo, calls, gets, sets) ==
    [cache |-> c, value |-> v, src |-> from, status |-> st, prompt |-> p, timeout |-> tmo,
     nCalls |-> calls, nGets |-> gets, nSets |-> sets]

Rejected(c, code) == Outcome(c, NoResp, "none", code, None, 0, 0, 0, 0)

\* chat that stores what the provider call left even when it failed
ServiceChat_CachesFailure(c, en, prov, prompt, model, use_cache, kw_timeout, net, t) ==
    LET model_name == IF Truthy(model) THEN model ELSE DefaultModel(prov)
        pr == ProviderChat(prov, prompt, model, kw_timeout, net)
        kept == IF pr.ok THEN pr.response ELSE MkResp(prompt, model_name, "error")
    IN  Outcome(IF en /\ use_cache THEN CacheSet(c, prompt, model_name, kept, t) ELSE c,
                pr.response, IF pr.ok THEN "provider" ELSE "none", pr.status, prompt,
                pr.timeout, 1, 0, IF en /\ use_cache THEN 1 ELSE 0)

\* AIService.chat
ServiceChat(c, en, prov, prompt, model, use_cache, kw_timeout, net, t) ==
    LET model_name == IF Truthy(model) THEN model ELSE DefaultModel(prov)
        caching == en /\ use_cache
        looked == IF caching THEN CacheGet(c, prompt, model_name, t)
                  ELSE [cache |-> c, value |-> NoResp]
        gets == IF caching THEN 1 ELSE 0
    IN  IF looked.value # NoResp
        THEN Outcome(looked.cache, looked.value, "cache", 200, prompt, 0, 0, gets, 0)
        ELSE LET pr == ProviderChat(prov, prompt, model, kw_timeout, net) IN
             IF pr.ok
             THEN Outcome(IF caching
                          THEN CacheSet(looked.cache, prompt, model_name, pr.response, t)
                          ELSE looked.cache,
                          pr.response, "provider", 200, prompt, pr.timeout, 1, gets,
                          IF caching THEN 1 ELSE 0)
             ELSE Outcome(looked.cache, NoResp, "none", pr.status, prompt, pr.timeout,
                          1, gets, 0)

AgentTimeout == 60

\* AIService.execute_agent; response['agent'] = agent_name writes into the dict chat
\* returned, which is the dict the cache holds under the prompt whenever chat cached
ExecuteAgentCall(c, en, prov, agent_name, context, net, t) ==
    LET found == GetAgentPrompt(agent_name, context) IN
    IF ~found.ok
    THEN Rejected(c, 404)
    ELSE LET r == ServiceChat(c, en, prov, found.prompt, None, TRUE, AgentTimeout, net, t)
             key == GenerateKey(found.prompt, DefaultModel(prov))
         IN  IF r.status # 200 THEN r
             ELSE [r EXCEPT !.value.agent = agent_name,
                            !.cache = IF en
                                      THEN [r.cache EXCEPT ![key].response.agent = agent_name]
                                      ELSE r.cache]

MinContent == 10
MaxContent == 50000
SummarizeTimeout == 45

\* summarize with the lower limit off by one
SummarizeCall_OffByOne(c, en, prov, content, net, t) ==
    IF ~Truthy(content) \/ StrLen(content) <= MinContent
    THEN Rejected(c, 400)
    ELSE IF StrLen(content) > MaxContent
    THEN Rejected(c, 400)
    ELSE ServiceChat(c, en, prov, SummarizePrompt(content), None, TRUE,
                     SummarizeTimeout, net, t)

\* AIService.summarize
SummarizeCall(c, en, prov, content, net, t) ==
    IF ~Truthy(content) \/ StrLen(content) < MinContent
    THEN Rejected(c, 400)
    ELSE IF StrLen(content) > MaxContent
    THEN Rejected(c, 400)
    ELSE ServiceChat(c, en, prov, SummarizePrompt(content), None, TRUE,
                     SummarizeTimeout, net, t)

\* chat_with_context with use_cache=False left out
ChatWithContextCall_Cached(c, en, prov, question, task_data, net, t) ==
    ServiceChat(c, en, prov, TaskContextPrompt(question, task_data), None, TRUE, 0, net, t)

\* AIService.chat_with_context
ChatWithContextCall(c, en, prov, question, task_data, net, t) ==
    ServiceChat(c, en, prov, TaskContextPrompt(question, task_data), None, FALSE, 0, net, t)

----------------------------------------------------------------------------
(* MemoryService: src/src/services/memory_service.py *)

\* session ids: None, '', an id the caller supplies, a token of uuid.uuid4()
NoSession == [kind |-> "none", n |-> 0]
EmptySession == [kind |-> "empty", n |-> 0]
Given(k) == [kind |-> "given", n |-> k]
SessionTruthy(session_id) == session_id.kind \notin {"none", "empty"}

Uuid4_Same(sc) == [kind |-> "uuid4", n |-> 1]

\* str(uuid.uuid4()): a token no earlier call of this service produced
Uuid4(sc) == [kind |-> "uuid4", n |-> Cardinality(DOMAIN sc) + 1]

\* MemoryService._get_or_create_session
GetOrCreateSession(sc, user_id) ==
    IF user_id \notin DOMAIN sc
    THEN [session_cache |-> sc @@ (user_id :> Uuid4(sc)), value |-> Uuid4(sc)]
    ELSE [session_cache |-> sc, value |-> sc[user_id]]

\* a row of ConversationHistory; created_at is the time of the insert
ConversationHistory(user_id, session_id, role, message, tokens_used, t) ==
    [user_id |-> user_id, session_id |-> session_id, role |-> role, message |-> message,
     tokens_used |-> tokens_used, created_at |-> t]

NoConversation == ConversationHistory(0, NoSession, <<>>, <<>>, 0, 0)

\* MemoryService.save_conversation
SaveConversationCall(rows, sc, user_id, role, message, session_id, tokens_used, t) ==
    LET s == IF ~SessionTruthy(session_id)
             THEN GetOrCreateSession(sc, user_id)
             ELSE [session_cache |-> sc, value |-> session_id]
        conversation == ConversationHistory(user_id, s.value, role, message, tokens_used, t)
    IN  [conversations |-> rows \cup {conversation},
         session_cache |-> s.session_cache,
         value |-> conversation]

\* order_by(desc(ConversationHistory.created_at)); no two rows share created_at
RECURSIVE OrderByDesc(_)
OrderByDesc(rows) ==
    IF rows = {} THEN <<>>
    ELSE LET newest == CHOOSE r \in rows : \A q \in rows : q.created_at <= r.created_at
         IN  <<newest>> \o OrderByDesc(rows \ {newest})

\* .limit(limit) of a query, limit a natural number
Limit(rows, limit) == SubSeq(rows, 1, IF limit < Len(rows) THEN limit ELSE Len(rows))

Reversed(rows) == [i \in 1..Len(rows) |-> rows[Len(rows) + 1 - i]]

GetRecentConversations_NewestFirst(rows, user_id, limit, session_id) ==
    LET query == {r \in rows : r.user_id = user_id}
        filtered == IF SessionTruthy(session_id)
                    THEN {r \in query : r.session_id = session_id}
                    ELSE query
    IN  Limit(OrderByDesc(filtered), limit)

\* MemoryService.get_recent_conversations
GetRecentConversations(rows, user_id, limit, session_id) ==
    LET query == {r \in rows : r.user_id = user_id}
        filtered == IF SessionTruthy(session_id)
                    THEN {r \in query : r.session_id = session_id}
                    ELSE query
        found == Limit(OrderByDesc(filtered), limit)
    IN  Reversed(found)

ClearSessionCall_AnyUser(rows, user_id, session_id) ==
    {r \in rows : r.session_id # session_id}

\* MemoryService.clear_session
ClearSessionCall(rows, user_id, session_id) ==
    {r \in rows : ~(r.user_id = user_id /\ r.session_id = session_id)}

\* clear_all_data: the rows of a table that filter_by(user_id=user_id).delete() leaves
ClearAllDataCall(rows, user_id) == {r \in rows : r.user_id # user_id}

\* a row of UserMemory; confidence in hundredths, last_accessed -1 for None
UserMemory(id, user_id, memory_type, key, value, confidence, t) ==
    [id |-> id, user_id |-> user_id, memory_type |-> memory_type, key |-> key,
     value |-> value, confidence |-> confidence, created_at |-> t, updated_at |-> t,
     access_count |-> 0, last_accessed |-> -1]

NoMemory == UserMemory(0, 0, "", <<>>, <<>>, 0, 0)

\* the primary key the database gives the next row
NextId(rows) ==
    IF rows = {} THEN 1
    ELSE 1 + (CHOOSE i \in {r.id : r \in rows} : \A r \in rows : r.id <= i)

\* UserMemory.query.filter_by(user_id, memory_type, key).first(): any of the rows
\* that match, NoMemory when none does
FirstMemory(rows, user_id, memory_type, key) ==
    LET matches == {r \in rows : /\ r.user_id = user_id
                                 /\ r.memory_type = memory_type
                                 /\ r.key = key}
    IN  IF matches = {} THEN {NoMemory} ELSE matches

SaveMemoryCall_AlwaysAdds(rows, memory, user_id, memory_type, key, value, confidence, t) ==
    LET created == UserMemory(NextId(rows), user_id, memory_type, key, value,
                              confidence, t)
    IN  [memories |-> rows \cup {created}, value |-> created]

\* MemoryService.save_memory, memory being what first() returned
SaveMemoryCall(rows, memory, user_id, memory_type, key, value, confidence, t) ==
    IF memory # NoMemory
    THEN LET updated == [memory EXCEPT !.value = value, !.confidence = confidence,
                                       !.updated_at = t]
         IN  [memories |-> (rows \ {memory}) \cup {updated}, value |-> updated]
    ELSE LET created == UserMemory(NextId(rows), user_id, memory_type, key, value,
                                   confidence, t)
         IN  [memories |-> rows \cup {created}, value |-> created]

\* save_memory with no unique constraint behind it
UniqueTriple_Unchecked(rows, row) == TRUE

\* UserMemory is unique on (user_id, memory_type, key): whether the table takes row
UniqueTriple(rows, row) ==
    ~\E r \in rows : /\ r.user_id = row.user_id
                     /\ r.memory_type = row.memory_type
                     /\ r.key = row.key

\* db.session.commit() of save_memory, memory being what first() returned before:
\* the UPDATE of that row by its primary key, or the INSERT of a new one, which
\* the unique constraint refuses with an IntegrityError (error) when the triple is taken
CommitMemory(rows, memory, user_id, memory_type, key, value, confidence, t) ==
    IF memory # NoMemory
    THEN [memories |-> {IF r.id = memory.id
                        THEN [r EXCEPT !.value = value, !.confidence = confidence,
                                       !.updated_at = t]
                        ELSE r : r \in rows},
          error |-> FALSE]
    ELSE LET created == UserMemory(NextId(rows), user_id, memory_type, key, value,
                                   confidence, t)
         IN  IF UniqueTriple(rows, created)
             THEN [memories |-> rows \cup {created}, error |-> FALSE]
             ELSE [memories |-> rows, error |-> TRUE]

\* MemoryService.get_memory, memory being what first() returned; the value is the row
\* that to_dict() renders, NoMemory for None
GetMemoryCall(rows, memory, t) ==
    IF memory # NoMemory
    THEN LET accessed == [memory EXCEPT !.last_accessed = t, !.access_count = @ + 1]
         IN  [memories |-> (rows \ {memory}) \cup {accessed}, value |-> accessed]
    ELSE [memories |-> rows, value |-> NoMemory]

\* query.all() without order_by: the rows in rowid order
RECURSIVE OrderById(_)
OrderById(rows) ==
    IF rows = {} THEN <<>>
    ELSE LET top == CHOOSE r \in rows : \A q \in rows : r.id <= q.id
         IN  <<top>> \o OrderById(rows \ {top})

\* the dict get_all_memories starts from
Organized == [preferences |-> <<>>, patterns |-> <<>>, insights |-> <<>>, goals |-> <<>>]

\* the loop of get_all_memories over the rows it read
RECURSIVE Organize(_, _)
Organize(organized, rows) ==
    IF rows = <<>> THEN organized
    ELSE LET memory == Head(rows)
             memory_type == memory.memory_type
         IN  Organize(IF memory_type \in DOMAIN organized
                      THEN [organized EXCEPT ![memory_type] = Append(@, memory)]
                      ELSE organized,
                      Tail(rows))

\* MemoryService.get_all_memories
GetAllMemoriesCall(rows, user_id) ==
    Organize(Organized, OrderById({r \in rows : r.user_id = user_id}))

DeleteMemoryCall_AnyUser(rows, user_id, memory_id) ==
    LET found == {r \in rows : r.id = memory_id} IN
    IF found # {} THEN [memories |-> rows \ found, value |-> TRUE]
    ELSE [memories |-> rows, value |-> FALSE]

\* MemoryService.delete_memory
DeleteMemoryCall(rows, user_id, memory_id) ==
    LET found == {r \in rows : r.id = memory_id /\ r.user_id = user_id} IN
    IF found # {} THEN [memories |-> rows \ found, value |-> TRUE]
    ELSE [memories |-> rows, value |-> FALSE]

\* the context dict of build_ai_context
Context(user_profile, preferences, recent_conversations, active_tasks, relevant_memories, current_message) ==
    [user_profile |-> user_profile, preferences |-> preferences,
     recent_conversations |-> recent_conversations, active_tasks |-> active_tasks,
     relevant_memories |-> relevant_memories, current_message |-> current_message]

\* the dict of _get_user_profile_context; {} is the profile with empty = TRUE
Profile(name, role, email) == [empty |-> FALSE, name |-> name, role |-> role, email |-> email]
EmptyProfile == [empty |-> TRUE, name |-> <<>>, role |-> <<>>, email |-> <<>>]

\* Task.to_dict, the fields the context uses
Task(id, assignee_id, title, status, urgent, deadline) ==
    [id |-> id, assignee_id |-> assignee_id, title |-> title, status |-> status,
     urgent |-> urgent, deadline |-> deadline, description |-> <<>>]

NoContext == Context(EmptyProfile, <<>>, <<>>, <<>>, <<>>, <<>>)

ShownTasks == 5
ShownTurns == 5
MessageCut == 100

PreferencesHeader == Cat(Lit(<<"\n">>), Text("User Preferences:"))
TasksHeader == Cat(Lit(<<"\n">>), Text("Active Tasks:"))
MemoriesHeader == Cat(Lit(<<"\n">>), Text("Relevant Past Context:"))
ConversationHeader == Cat(Lit(<<"\n">>), Text("Recent Conversation:"))

\* f"User: {name} ({role})"
ProfileLine(profile) ==
    Cat(Cat(Cat(Cat(Text("User: "), profile.name), Lit(<<" ", "(">>)), profile.role),
        Lit(<<")">>))

\* f"- {pref}"
PreferenceLine(pref) == Cat(Lit(<<"-", " ">>), pref)

\* f"{status_emoji} {task['title']} ({task['status']})"
TaskLine(task) ==
    Cat(Cat(Cat(Cat(Cat(Text(IF task.urgent THEN "red" ELSE "green"), Lit(<<" ">>)),
                    task.title), Lit(<<" ", "(">>)), task.status), Lit(<<")">>))

\* f"- {memory['key']}: {memory['value']}"
MemoryLine(memory) ==
    Cat(Cat(Cat(Lit(<<"-", " ">>), memory.key), Lit(<<":", " ">>)), memory.value)

\* f"{role}: {conv['message'][:100]}"
FormatTurn(conv) ==
    Cat(Cat(Capitalize(conv.role), Lit(<<":", " ">>)), Take(conv.message, MessageCut))

FormatConversation_Oldest(convs) ==
    [i \in 1..Len(FirstK(convs, ShownTurns)) |-> FormatTurn(FirstK(convs, ShownTurns)[i])]

\* the loop over context['recent_conversations'][-5:]
FormatConversation(convs) ==
    [i \in 1..Len(LastK(convs, ShownTurns)) |-> FormatTurn(LastK(convs, ShownTurns)[i])]

\* MemoryService.format_context_for_ai, the list `parts` before the join
FormatParts(context) ==
    (IF ~context.user_profile.empty THEN <<ProfileLine(context.user_profile)>> ELSE <<>>)
    \o (IF context.preferences # <<>>
        THEN <<PreferencesHeader>>
             \o [i \in 1..Len(context.preferences) |->
                    PreferenceLine(context.preferences[i])]
        ELSE <<>>)
    \o (IF context.active_tasks # <<>>
        THEN <<TasksHeader>>
             \o [i \in 1..Len(FirstK(context.active_tasks, ShownTasks)) |->
                    TaskLine(context.active_tasks[i])]
        ELSE <<>>)
    \o (IF context.relevant_memories # <<>>
        THEN <<MemoriesHeader>>
             \o [i \in 1..Len(context.relevant_memories) |->
                    MemoryLine(context.relevant_memories[i])]
        ELSE <<>>)
    \o (IF context.recent_conversations # <<>>
        THEN <<ConversationHeader>> \o FormatConversation(context.recent_conversations)
        ELSE <<>>)

\* MemoryService.format_context_for_ai
FormatContextForAI(context) == Join(Lit(<<"\n">>), FormatParts(context))

\* column.contains(query): LIKE '%' || query || '%', which SQLite matches without regard
\* to ASCII case and with '_' in the query standing for any one character
Contains(s, query) ==
    LET sc == Chars(s)
        qc == Chars(query)
        a == [i \in 1..Len(sc) |-> LowerChar(sc[i])]
        b == [j \in 1..Len(qc) |-> LowerChar(qc[j])]
    IN  \E i \in 0..(Len(a) - Len(b)) :
            \A j \in 1..Len(b) : b[j] = "_" \/ a[i + j] = b[j]

\* order_by(desc(UserMemory.confidence)); rows of equal confidence come in rowid order
RECURSIVE OrderByConfidence(_)
OrderByConfidence(rows) ==
    IF rows = {} THEN <<>>
    ELSE LET top == CHOOSE r \in rows : \A q \in rows :
                        \/ q.confidence < r.confidence
                        \/ q.confidence = r.confidence /\ r.id <= q.id
         IN  <<top>> \o OrderByConfidence(rows \ {top})

\* order_by(desc(UserMemory.updated_at)); rows of equal updated_at come in rowid order
RECURSIVE OrderByUpdated(_)
OrderByUpdated(rows) ==
    IF rows = {} THEN <<>>
    ELSE LET top == CHOOSE r \in rows : \A q \in rows :
                        \/ q.updated_at < r.updated_at
                        \/ q.updated_at = r.updated_at /\ r.id <= q.id
         IN  <<top>> \o OrderByUpdated(rows \ {top})

\* order_by(desc(Task.urgent), Task.deadline); equal rows come in rowid order
RECURSIVE OrderTasks(_)
OrderTasks(rows) ==
    IF rows = {} THEN <<>>
    ELSE LET Before(r, q) ==
                \/ r.urgent /\ ~q.urgent
                \/ r.urgent = q.urgent /\ r.deadline < q.deadline
                \/ r.urgent = q.urgent /\ r.deadline = q.deadline /\ r.id <= q.id
             top == CHOOSE r \in rows : \A q \in rows : Before(r, q)
         IN  <<top>> \o OrderTasks(rows \ {top})

\* MemoryService.get_memories_by_type
GetMemoriesByType(rows, user_id, memory_type) ==
    OrderByUpdated({r \in rows : r.user_id = user_id /\ r.memory_type = memory_type})

\* MemoryService.search_memories
SearchMemories(rows, user_id, query, limit) ==
    Limit(OrderByConfidence({r \in rows : /\ r.user_id = user_id
                                          /\ \/ Contains(r.key, query)
                                             \/ Contains(r.value, query)}), limit)

\* a row of User
User(id, name, role, email) == [id |-> id, name |-> name, role |-> role, email |-> email]

\* MemoryService._get_user_profile_context
GetUserProfileContext(user_rows, user_id) ==
    LET found == {u \in user_rows : u.id = user_id} IN
    IF found # {}
    THEN LET user == CHOOSE u \in found : TRUE IN Profile(user.name, user.role, user.email)
    ELSE EmptyProfile

\* MemoryService._get_preferences_context
GetPreferencesContext(rows, user_id) ==
    LET preferences == GetMemoriesByType(rows, user_id, "preference") IN
    [i \in 1..Len(preferences) |->
        Cat(Cat(preferences[i].key, Lit(<<":", " ">>)), preferences[i].value)]

RecentLimit == 10

\* MemoryService._get_conversation_context
GetConversationContext(rows, user_id, session_id) ==
    GetRecentConversations(rows, user_id, RecentLimit, session_id)

TaskLimit == 10
ActiveStatuses == {Text("todo"), Text("in-progress")}

\* MemoryService._get_tasks_context
GetTasksContext(task_rows, user_id) ==
    Limit(OrderTasks({t \in task_rows : t.assignee_id = user_id /\ t.status \in ActiveStatuses}),
          TaskLimit)

KeywordLength == 4
KeywordCount == 3
KeywordResults == 2
RelevantCount == 5

\* [word.lower() for word in message.split() if len(word) > 4]
Keywords(message) ==
    LET words == SelectSeq(Split(message), LAMBDA word : StrLen(word) > KeywordLength)
    IN  [i \in 1..Len(words) |-> Lower(words[i])]

\* the list `relevant` after the loop over the keywords
RECURSIVE Extend(_, _, _)
Extend(rows, user_id, keywords) ==
    IF keywords = <<>> THEN <<>>
    ELSE SearchMemories(rows, user_id, keywords[1], KeywordResults)
            \o Extend(rows, user_id, Tail(keywords))

\* the loop that drops the memories whose id was seen
RECURSIVE UniqueMemories(_, _)
UniqueMemories(relevant, seen) ==
    IF relevant = <<>> THEN <<>>
    ELSE IF relevant[1].id \in seen THEN UniqueMemories(Tail(relevant), seen)
    ELSE <<relevant[1]>> \o UniqueMemories(Tail(relevant), seen \cup {relevant[1].id})

\* MemoryService._get_relevant_memories
GetRelevantMemories(rows, user_id, message) ==
    LET keywords == Keywords(message)
        relevant == Extend(rows, user_id, FirstK(keywords, KeywordCount))
    IN  FirstK(UniqueMemories(relevant, {}), RelevantCount)

BuildAiContextCall_SavesMessage(user_rows, task_rows, memory_rows, rows, sc, user_id, message, session_id, t) ==
    LET s == SaveConversationCall(rows, sc, user_id, Lit(<<"u", "s", "e", "r">>), message,
                                  session_id, 0, t)
    IN  [conversations |-> s.conversations, memories |-> memory_rows,
         session_cache |-> s.session_cache,
         value |-> Context(GetUserProfileContext(user_rows, user_id),
                           GetPreferencesContext(memory_rows, user_id),
                           GetConversationContext(s.conversations, user_id, session_id),
                           GetTasksContext(task_rows, user_id),
                           GetRelevantMemories(memory_rows, user_id, message),
                           message)]

\* MemoryService.build_ai_context: the rows and the session cache it leaves, and the
\* context it returns
BuildAiContextCall(user_rows, task_rows, memory_rows, rows, sc, user_id, message, session_id, t) ==
    [conversations |-> rows, memories |-> memory_rows, session_cache |-> sc,
     value |-> Context(GetUserProfileContext(user_rows, user_id),
                       GetPreferencesContext(memory_rows, user_id),
                       GetConversationContext(rows, user_id, session_id),
                       GetTasksContext(task_rows, user_id),
                       GetRelevantMemories(memory_rows, user_id, message),
                       message)]

----------------------------------------------------------------------------
(* Routes: the JWT decorators, /api/auth and /api/tasks *)

\* the access_token cookie of a request: none, one that does not verify, or the one
\* create_access_token(identity=str(user.id)) made
NoToken == [kind |-> "none", identity |-> 0]
BadToken == [kind |-> "invalid", identity |-> 0]
AccessToken(user_id) == [kind |-> "access", identity |-> user_id]

\* the JSON body of a request: has is the set of the fields it carries
Data(has, title, status, urgent, assignee_id, description) ==
    [has |-> has, title |-> title, status |-> status, urgent |-> urgent,
     assignee_id |-> assignee_id, description |-> description]
NoData == Data({}, <<>>, <<>>, FALSE, 0, <<>>)

NoTask == [id |-> 0, assignee_id |-> 0, title |-> <<>>, status |-> <<>>, urgent |-> FALSE, deadline |-> 0, description |-> <<>>]
NoUser == [id |-> 0, name |-> <<>>, role |-> <<>>, email |-> <<>>]

\* what a view did: the status of its response, whether its body ran, whether it left
\* by an exception, the rows it left and the row it answered with
Response(status_code, executed, raised, user_rows, task_rows, task, user) ==
    [status_code |-> status_code, executed |-> executed, raised |-> raised,
     users |-> user_rows, tasks |-> task_rows, task |-> task, user |-> user]

\* middleware.auth.token_required around a view; accepts_user_id says whether the view
\* has the parameter current_user_id, handled is what the view does when it is called
TokenRequired(token, accepts_user_id, user_rows, task_rows, handled) ==
    IF token.kind # "access"
    THEN Response(401, FALSE, FALSE, user_rows, task_rows, NoTask, NoUser)
    ELSE IF ~accepts_user_id
    THEN Response(401, FALSE, FALSE, user_rows, task_rows, NoTask, NoUser)
    ELSE IF handled.raised
    THEN [handled EXCEPT !.status_code = 401, !.raised = FALSE]
    ELSE handled

\* flask_jwt_extended.jwt_required around a view, with the loaders of main.py and the
\* APIError handler of utils/errors.py
JwtRequired(token, user_rows, task_rows, handled) ==
    IF token.kind # "access"
    THEN Response(401, FALSE, FALSE, user_rows, task_rows, NoTask, NoUser)
    ELSE [handled EXCEPT !.raised = FALSE]

\* marshmallow fields.Email: one '@' between a name and a domain with a dot in it
IsEmail(s) ==
    LET cs == Chars(s)
        ats == {i \in 1..Len(cs) : cs[i] = "@"}
    IN  /\ Cardinality(ats) = 1
        /\ \A i \in ats : /\ 1 < i
                          /\ \E j \in (i + 2)..(Len(cs) - 1) : cs[j] = "."

\* the body of POST /api/auth/register
Registration(name, email, password) == [name |-> name, email |-> email, password |-> password]

\* RegisterSchema().load
RegisterSchemaLoads(data) ==
    /\ StrLen(data.name) >= 2 /\ StrLen(data.name) <= 100
    /\ IsEmail(data.email)
    /\ StrLen(data.password) >= 6 /\ StrLen(data.password) <= 100

Register_NoLookup(user_rows, task_rows, data) ==
    IF ~RegisterSchemaLoads(data)
    THEN Response(400, FALSE, FALSE, user_rows, task_rows, NoTask, NoUser)
    ELSE LET user == User(NextId(user_rows), data.name, Text("Developer"), data.email)
         IN  Response(201, TRUE, FALSE, user_rows \cup {user}, task_rows, NoTask, user)

\* routes.auth.register under validate_request(RegisterSchema) and the APIError handler
RegisterCall(user_rows, task_rows, data) ==
    IF ~RegisterSchemaLoads(data)
    THEN Response(400, FALSE, FALSE, user_rows, task_rows, NoTask, NoUser)
    ELSE IF \E u \in user_rows : u.email = data.email
    THEN Response(409, TRUE, FALSE, user_rows, task_rows, NoTask, NoUser)
    ELSE LET user == User(NextId(user_rows), data.name, Text("Developer"), data.email)
         IN  Response(201, TRUE, FALSE, user_rows \cup {user}, task_rows, NoTask, user)

\* routes.auth.get_current_user (GET /api/auth/me)
GetCurrentUserCall(user_rows, task_rows, token) ==
    LET found == {u \in user_rows : u.id = token.identity} IN
    IF found = {}
    THEN Response(401, TRUE, TRUE, user_rows, task_rows, NoTask, NoUser)
    ELSE Response(200, TRUE, FALSE, user_rows, task_rows, NoTask, CHOOSE u \in found : TRUE)

TaskStatuses == {Text("todo"), Text("in-progress"), Text("done")}
TaskSchemaFields == {"title", "description", "status", "urgent", "assignee_id"}

\* TaskSchema().load
TaskSchemaLoads(data) ==
    /\ data.has \subseteq TaskSchemaFields
    /\ "title" \in data.has /\ StrLen(data.title) >= 1 /\ StrLen(data.title) <= 200
    /\ "description" \in data.has => StrLen(data.description) <= 1000
    /\ "status" \in data.has => data.status \in TaskStatuses
    /\ "assignee_id" \in data.has

\* routes.tasks.create_task under validate_request(TaskSchema)
CreateTaskCall(user_rows, task_rows, data) ==
    IF ~TaskSchemaLoads(data)
    THEN Response(400, FALSE, FALSE, user_rows, task_rows, NoTask, NoUser)
    ELSE LET new_task ==
                [id |-> NextId(task_rows), assignee_id |-> data.assignee_id,
                 title |-> data.title,
                 status |-> IF "status" \in data.has THEN data.status ELSE Text("todo"),
                 urgent |-> IF "urgent" \in data.has THEN data.urgent ELSE FALSE,
                 deadline |-> 0,
                 description |-> IF "description" \in data.has THEN data.description ELSE <<>>]
         IN  Response(201, TRUE, FALSE, user_rows, task_rows \cup {new_task}, new_task, NoUser)

\* routes.tasks.update_task; an exception rolls the session back and leaves the view
UpdateTaskCall(user_rows, task_rows, task_id, data) ==
    LET found == {t \in task_rows : t.id = task_id} IN
    IF found = {}
    THEN Response(404, TRUE, TRUE, user_rows, task_rows, NoTask, NoUser)
    ELSE IF "title" \in data.has /\ (data.title = <<>> \/ StrLen(data.title) > 200)
    THEN Response(400, TRUE, TRUE, user_rows, task_rows, NoTask, NoUser)
    ELSE IF "description" \in data.has /\ StrLen(data.description) > 1000
    THEN Response(400, TRUE, TRUE, user_rows, task_rows, NoTask, NoUser)
    ELSE IF "status" \in data.has /\ data.status \notin TaskStatuses
    THEN Response(400, TRUE, TRUE, user_rows, task_rows, NoTask, NoUser)
    ELSE LET task == CHOOSE t \in found : TRUE
             updated ==
                [task EXCEPT
                    !.title = IF "title" \in data.has THEN data.title ELSE @,
                    !.description = IF "description" \in data.has THEN data.description ELSE @,
                    !.status = IF "status" \in data.has THEN data.status ELSE @,
                    !.urgent = IF "urgent" \in data.has THEN data.urgent ELSE @,
                    !.assignee_id = IF "assignee_id" \in data.has THEN data.assignee_id ELSE @]
         IN  Response(200, TRUE, FALSE, user_rows, (task_rows \ {task}) \cup {updated},
                      updated, NoUser)

\* routes.tasks.update_task_status, when it is called
UpdateTaskStatusCall(user_rows, task_rows, task_id, data) ==
    LET found == {t \in task_rows : t.id = task_id} IN
    IF found = {}
    THEN Response(404, TRUE, TRUE, user_rows, task_rows, NoTask, NoUser)
    ELSE IF "status" \notin data.has \/ data.status = <<>> \/ data.status \notin TaskStatuses
    THEN Response(400, TRUE, TRUE, user_rows, task_rows, NoTask, NoUser)
    ELSE LET task == CHOOSE t \in found : TRUE
             updated == [task EXCEPT !.status = data.status]
         IN  Response(200, TRUE, FALSE, user_rows, (task_rows \ {task}) \cup {updated},
                      updated, NoUser)

----------------------------------------------------------------------------
(* Routes: task share links, /api/tasks/share, /access, /update and /revoke *)

\* a row of TaskShare; last_accessed -1 for None
TaskShare(id, task_id, shared_by, share_token, permission, expires_at, revoked) ==
    [id |-> id, task_id |-> task_id, shared_by |-> shared_by, share_token |-> share_token,
     permission |-> permission, expires_at |-> expires_at, access_count |-> 0,
     last_accessed |-> -1, revoked |-> revoked]

NoShare == TaskShare(0, 0, 0, <<>>, "", 0, FALSE)

\* TaskShare.query.filter_by(share_token=share_token).first(), NoShare for None
FirstShare(share_rows, share_token) ==
    IF \E sh \in share_rows : sh.share_token = share_token
    THEN CHOOSE sh \in share_rows : sh.share_token = share_token
    ELSE NoShare

\* what a view of routes/task_sharing.py did: the response and the share rows it left
Shared(response, share_rows) == [response |-> response, shares |-> share_rows]

\* the body of POST /api/tasks/share
ShareData(has, task_id, permission) == [has |-> has, task_id |-> task_id, permission |-> permission]

Permissions == {"view", "edit", "admin"}
ExpiresInDays == 30

\* TaskShareSchema().load
TaskShareSchemaLoads(data) ==
    /\ "task_id" \in data.has
    /\ "permission" \in data.has => data.permission \in Permissions

\* routes.task_sharing.share_task, when it is called; new_token is what
\* generate_share_token returns; supervisor_id is None in the rows of the model
ShareTaskCall(user_rows, task_rows, share_rows, user_id, data, new_token, t) ==
    LET Refused(status_code) ==
            Shared(Response(status_code, TRUE, TRUE, user_rows, task_rows, NoTask, NoUser),
                   share_rows)
        found == {task \in task_rows : task.id = data.task_id}
    IN  IF ~\E u \in user_rows : u.id = user_id THEN Refused(401)
        ELSE IF found = {} THEN Refused(404)
        ELSE LET task == CHOOSE task \in found : TRUE
                 task_share ==
                    TaskShare(NextId(share_rows), task.id, user_id, new_token,
                              IF "permission" \in data.has THEN data.permission ELSE "view",
                              t + ExpiresInDays, FALSE)
             IN  IF user_id # task.assignee_id THEN Refused(403)
                 ELSE Shared(Response(201, TRUE, FALSE, user_rows, task_rows, task, NoUser),
                             share_rows \cup {task_share})

\* token_required and validate_request(TaskShareSchema) around a view with no parameter
\* current_user_id
ShareTaskRequest(token, user_rows, task_rows, share_rows, data, new_token, t) ==
    IF token.kind # "access"
    THEN Shared(Response(401, FALSE, FALSE, user_rows, task_rows, NoTask, NoUser), share_rows)
    ELSE IF ~TaskShareSchemaLoads(data)
    THEN Shared(Response(400, FALSE, FALSE, user_rows, task_rows, NoTask, NoUser), share_rows)
    ELSE LET called == ShareTaskCall(user_rows, task_rows, share_rows, token.identity, data, new_token, t)
             r == TokenRequired(token, FALSE, user_rows, task_rows, called.response)
         IN  Shared(r, IF r.executed /\ r.status_code = 201 THEN called.shares ELSE share_rows)

\* routes.task_sharing.access_shared_task with the APIError handler
AccessSharedTaskCall(user_rows, task_rows, share_rows, share_token, t) ==
    LET Refused(status_code) ==
            Shared(Response(status_code, TRUE, FALSE, user_rows, task_rows, NoTask, NoUser),
                   share_rows)
        task_share == FirstShare(share_rows, share_token)
        found == {task \in task_rows : task.id = task_share.task_id}
    IN  IF task_share = NoShare THEN Refused(404)
        ELSE IF task_share.expires_at # 0 /\ task_share.expires_at < t THEN Refused(410)
        ELSE IF task_share.revoked THEN Refused(403)
        ELSE IF found = {} THEN Refused(404)
        ELSE LET accessed == [task_share EXCEPT !.access_count = @ + 1,
                                                !.last_accessed = t]
             IN  Shared(Response(200, TRUE, FALSE, user_rows, task_rows,
                                 CHOOSE task \in found : TRUE, NoUser),
                        (share_rows \ {task_share}) \cup {accessed})

\* bleach.clean(str(text), tags=[], strip=True) on the characters of a text: the tags,
\* from '<' to the next '>', are dropped
RECURSIVE StripTags(_, _)
StripTags(cs, inside) ==
    IF cs = <<>> THEN <<>>
    ELSE IF inside THEN StripTags(Tail(cs), Head(cs) # ">")
    ELSE IF Head(cs) = "<" THEN StripTags(Tail(cs), TRUE)
    ELSE <<Head(cs)>> \o StripTags(Tail(cs), FALSE)

\* utils.validation.sanitize_string
SanitizeString(text) == IF text = <<>> THEN text ELSE Lit(StripTags(Chars(text), FALSE))

\* routes.task_sharing.update_shared_task with the APIError handler; data is
\* request.validated_data; an exception rolls the session back
UpdateSharedTaskCall(user_rows, task_rows, share_rows, share_token, data, t) ==
    LET Refused(status_code) ==
            Shared(Response(status_code, TRUE, FALSE, user_rows, task_rows, NoTask, NoUser),
                   share_rows)
        task_share == FirstShare(share_rows, share_token)
        found == {task \in task_rows : task.id = task_share.task_id}
    IN  IF data.has = {} THEN Refused(400)
        ELSE IF task_share = NoShare \/ task_share.revoked THEN Refused(403)
        ELSE IF task_share.expires_at # 0 /\ task_share.expires_at < t THEN Refused(410)
        ELSE IF task_share.permission \notin {"edit", "admin"} THEN Refused(403)
        ELSE IF found = {} THEN Refused(404)
        ELSE IF "description" \in data.has /\ task_share.permission # "admin" THEN Refused(403)
        ELSE IF data.has \cap {"status", "description"} = {} THEN Refused(400)
        ELSE LET task == CHOOSE task \in found : TRUE
                 updated ==
                    [task EXCEPT
                        !.status = IF "status" \in data.has THEN data.status ELSE @,
                        !.description = IF "description" \in data.has
                                        THEN SanitizeString(data.description) ELSE @]
             IN  Shared(Response(200, TRUE, FALSE, user_rows,
                                 (task_rows \ {task}) \cup {updated}, updated, NoUser),
                        share_rows)

\* routes.task_sharing.revoke_share, when it is called
RevokeShareCall(user_rows, task_rows, share_rows, user_id, share_token) ==
    LET Refused(status_code) ==
            Shared(Response(status_code, TRUE, TRUE, user_rows, task_rows, NoTask, NoUser),
                   share_rows)
        task_share == FirstShare(share_rows, share_token)
    IN  IF ~\E u \in user_rows : u.id = user_id THEN Refused(401)
        ELSE IF task_share = NoShare THEN Refused(404)
        ELSE IF task_share.shared_by # user_id THEN Refused(403)
        ELSE Shared(Response(200, TRUE, FALSE, user_rows, task_rows, NoTask, NoUser),
                    (share_rows \ {task_share}) \cup {[task_share EXCEPT !.revoked = TRUE]})

\* token_required around revoke_share(share_token), a view with no parameter
\* current_user_id
RevokeShareRequest(token, user_rows, task_rows, share_rows, share_token) ==
    LET called == RevokeShareCall(user_rows, task_rows, share_rows, token.identity, share_token)
        r == TokenRequired(token, FALSE, user_rows, task_rows, called.response)
    IN  Shared(r, IF r.executed /\ r.status_code = 200 THEN called.shares ELSE share_rows)

\* the record of the last operation of MemoryService
NoCall ==
    [op |-> "none", user_id |-> 0, session_id |-> NoSession, limit |-> 0,
     result |-> <<>>, conversation |-> NoConversation, memory |-> NoMemory,
     triple |-> <<0, "", <<>>>>, deleted |-> FALSE, pre |-> {}, at |-> 0,
     message |-> <<>>, context |-> NoContext, parts |-> <<>>, text |-> <<>>, nth |-> 0,
     token |-> NoToken, data |-> NoData, status_code |-> 0, executed |-> FALSE,
     task |-> NoTask, user |-> NoUser, users_pre |-> {}, tasks_pre |-> {},
     organized |-> Organized]

\* a MemoryService on an empty database
FreshMemory ==
    /\ conversations = {}
    /\ memories = {}
    /\ session_cache = <<>>
    /\ turns = <<>>
    /\ saved = <<>>
    /\ mlast = NoCall
    /\ users = {}
    /\ tasks = {}
    /\ shares = {}
    /\ procs = <<>>

----------------------------------------------------------------------------
(* The record of the last operation *)

Idle ==
    [op |-> "none", prompt |-> None, model |-> None, use_cache |-> FALSE,
     value |-> NoResp, src |-> "none", status |-> 0, pre |-> EmptyCache,
     nCalls |-> 0, nGets |-> 0, nSets |-> 0,
     arg |-> None, net |-> "none", timeout |-> 0, size |-> 0, ttl |-> 0]

\* the history of sets: the pair just stored replaces every pair stored under its key
Remember(h, p, m, r, t) ==
    LET keep == {pm \in DOMAIN h : GenerateKey(pm[1], pm[2]) # GenerateKey(p, m)} IN
    [pm \in keep \cup {<<p, m>>} |->
        IF pm = <<p, m>> THEN [response |-> r, timestamp |-> t] ELSE h[pm]]

NoHistory == [pm \in {} |-> [response |-> NoResp, timestamp |-> 0]]

----------------------------------------------------------------------------
(* AICache on its own: get, set, clear and stats called in any order *)

ColonA == Lit(<<"a", ":", "b">>)
CachePrompts == {Lit(<<"b">>), ColonA}
CacheModels == {Lit(<<"m">>), Lit(<<"m", ":", "a">>)}
CacheResponses ==
    {MkResp(Lit(<<"b">>), Lit(<<"m">>), "ollama"),
     MkResp(Lit(<<"c">>), Lit(<<"m">>), "lmstudio")}

InitCache ==
    /\ cache = EmptyCache
    /\ now = 0
    /\ stored = NoHistory
    /\ enable_cache = TRUE
    /\ provider_name = "ollama"
    /\ last = Idle
    /\ FreshMemory
    /\ FreshProviders

\* time passes between two operations
Tick ==
    /\ \E t \in Instants : t > now /\ now' = t
    /\ last' = [Idle EXCEPT !.op = "tick"]
    /\ UNCHANGED <<cache, stored, enable_cache, provider_name, memvars, provvars>>

Get(p, m) ==
    LET r == CacheGet(cache, p, m, now) IN
    /\ cache' = r.cache
    /\ last' = [Idle EXCEPT !.op = "get", !.prompt = p, !.model = m, !.value = r.value,
                            !.pre = cache, !.nGets = 1]
    /\ UNCHANGED <<now, stored, enable_cache, provider_name, memvars, provvars>>

Set(p, m, r) ==
    /\ cache' = CacheSet(cache, p, m, r, now)
    /\ stored' = Remember(stored, p, m, r, now)
    /\ last' = [Idle EXCEPT !.op = "set", !.prompt = p, !.model = m, !.value = r,
                            !.pre = cache, !.nSets = 1]
    /\ UNCHANGED <<now, enable_cache, provider_name, memvars, provvars>>

Clear ==
    /\ cache' = CacheClear(cache)
    /\ stored' = NoHistory
    /\ last' = [Idle EXCEPT !.op = "clear", !.pre = cache]
    /\ UNCHANGED <<now, enable_cache, provider_name, memvars, provvars>>

Stats ==
    /\ last' = [Idle EXCEPT !.op = "stats", !.pre = cache,
                            !.size = CacheStats(cache).size, !.ttl = CacheStats(cache).ttl]
    /\ UNCHANGED <<cache, now, stored, enable_cache, provider_name, memvars, provvars>>

NextCache ==
    \/ Tick
    \/ \E p \in CachePrompts, m \in CacheModels : Get(p, m)
    \/ \E p \in CachePrompts, m \in CacheModels, r \in CacheResponses : Set(p, m, r)
    \/ Clear
    \/ Stats

SpecCache == InitCache /\ [][NextCache]_vars

----------------------------------------------------------------------------
(* AICache shared by concurrent requests: get runs one dictionary operation at a
   time, and the operations of other requests come in between *)

MaxRequests == 2
RacePrompt == Lit(<<"b">>)
RaceModel == Lit(<<"m">>)
NoEntry == [response |-> NoResp, timestamp |-> 0]

\* a request inside AICache.get: the line it is about to run, its locals, and how
\* it ended (value is NoResp for None, error is a KeyError that left get)
Request27(pc, key, entry) == [pc |-> pc, key |-> key, entry |-> entry, value |-> NoResp, age |-> 0, error |-> FALSE]

OutsideCache == <<stored, enable_cache, provider_name, last, provvars, conversations, memories, session_cache, turns, saved, mlast, users, tasks, shares>>

\* key = self._generate_key(prompt, model); if key in self.cache:
GetMembership ==
    /\ Len(procs) < MaxRequests
    /\ LET key == GenerateKey(RacePrompt, RaceModel) IN
       procs' = Append(procs, Request27(IF key \in DOMAIN cache THEN "read" ELSE "done",
                                        key, NoEntry))
    /\ UNCHANGED <<cache, now, OutsideCache>>

\* entry = self.cache[key]
GetRead ==
    /\ \E i \in DOMAIN procs :
        /\ procs[i].pc = "read"
        /\ procs' = [procs EXCEPT ![i] =
                        IF procs[i].key \in DOMAIN cache
                        THEN [procs[i] EXCEPT !.pc = "test",
                                              !.entry = cache[procs[i].key]]
                        ELSE [procs[i] EXCEPT !.pc = "done", !.error = TRUE]]
    /\ UNCHANGED <<cache, now, OutsideCache>>

\* if time.time() - entry['timestamp'] < self.ttl: return entry['response']
GetExpiry ==
    /\ \E i \in DOMAIN procs :
        /\ procs[i].pc = "test"
        /\ procs' = [procs EXCEPT ![i] =
                        IF now - procs[i].entry.timestamp < Ttl
                        THEN [procs[i] EXCEPT !.pc = "done",
                                              !.value = procs[i].entry.response,
                                              !.age = now - procs[i].entry.timestamp]
                        ELSE [procs[i] EXCEPT !.pc = "del"]]
    /\ UNCHANGED <<cache, now, OutsideCache>>

\* del self.cache[key]; return None
GetDelete ==
    /\ \E i \in DOMAIN procs :
        /\ procs[i].pc = "del"
        /\ IF procs[i].key \in DOMAIN cache
           THEN /\ cache' = Without(cache, procs[i].key)
                /\ procs' = [procs EXCEPT ![i].pc = "done"]
           ELSE /\ cache' = cache
                /\ procs' = [procs EXCEPT ![i].pc = "done", ![i].error = TRUE]
    /\ UNCHANGED <<now, OutsideCache>>

\* AICache.set of another request
RaceSet ==
    /\ \E r \in CacheResponses : cache' = CacheSet(cache, RacePrompt, RaceModel, r, now)
    /\ UNCHANGED <<now, procs, OutsideCache>>

\* AICache.clear of another request
RaceClear ==
    /\ cache' = CacheClear(cache)
    /\ UNCHANGED <<now, procs, OutsideCache>>

\* time passes between two steps
RaceTick ==
    /\ \E t \in Instants : t > now /\ now' = t
    /\ UNCHANGED <<cache, procs, OutsideCache>>

NextRace ==
    \/ GetMembership
    \/ GetRead
    \/ GetExpiry
    \/ GetDelete
    \/ RaceSet
    \/ RaceClear
    \/ RaceTick

SpecRace == InitCache /\ [][NextRace]_vars

----------------------------------------------------------------------------
(* AIService: one service object, its operations called one after another *)

Phi3A == Cat(Phi3, Lit(<<":", "a">>))
TaskDatas ==
    {[title |-> Lit(<<"t">>), description |-> <<>>, status |-> Lit(<<"t","o","d","o">>),
      priority |-> <<>>]}
Questions == {Lit(<<"b">>)}
Contexts == {Lit(<<"c","t","x">>)}

\* the (prompt, model) of the direct chats: a prompt with no model and with the default
\* model named, a model name that holds ':', and the prompt of a contextual chat
ChatCalls ==
    {<<Lit(<<"b">>), None>>, <<Lit(<<"b">>), Phi3>>, <<Lit(<<"b">>), Phi3A>>, <<ColonA, None>>}
    \cup {<<TaskContextPrompt(q, td), None>> : q \in Questions, td \in TaskDatas}
AgentNames ==
    {Benchmarking,
     Lit(<<"B","e","n","c","h","m","a","r","k","i","n","g">>),
     Lit(<<"D","a","t","a"," ","A","n","a","l","y","s","i","s">>),
     Lit(<<"n","o","n","e","x","i","s","t","e","n","t">>)}
Contents ==
    {None, <<>>, Lit(<<"h","i">>), Fill("x", MinContent - 1), Fill("x", MinContent),
     Fill("x", MaxContent), Fill("x", MaxContent + 1)}

Init ==
    /\ cache = EmptyCache
    /\ now = 0
    /\ stored = NoHistory
    /\ enable_cache \in BOOLEAN
    /\ provider_name \in {"ollama", "lmstudio"}
    /\ last = Idle
    /\ FreshMemory
    /\ FreshProviders

\* the model a chat runs under: model or self.provider.default_model
EffectiveModel(m) == IF Truthy(m) THEN m ELSE DefaultModel(provider_name)

\* the service call that left r takes effect
Took(r, opname, arg, m, uc, net) ==
    /\ cache' = r.cache
    /\ last' = [Idle EXCEPT !.op = opname, !.arg = arg, !.prompt = r.prompt,
                            !.model = EffectiveModel(m), !.use_cache = uc,
                            !.value = r.value, !.src = r.src, !.status = r.status,
                            !.pre = cache, !.nCalls = r.nCalls, !.nGets = r.nGets,
                            !.nSets = r.nSets, !.net = net.kind, !.timeout = r.timeout]
    /\ UNCHANGED <<now, stored, enable_cache, provider_name, memvars, provvars>>

Chat(p, m, uc, net) ==
    Took(ServiceChat(cache, enable_cache, provider_name, p, m, uc, 0, net, now),
         "chat", m, m, uc, net)

ChatWithContext(q, td, net) ==
    Took(ChatWithContextCall(cache, enable_cache, provider_name, q, td, net, now),
         "chat_with_context", q, None, FALSE, net)

ExecuteAgent(name, x, net) ==
    Took(ExecuteAgentCall(cache, enable_cache, provider_name, name, x, net, now),
         "execute_agent", name, None, TRUE, net)

Summarize(content, net) ==
    Took(SummarizeCall(cache, enable_cache, provider_name, content, net, now),
         "summarize", content, None, TRUE, net)

\* AIService.clear_cache
ClearCache ==
    /\ cache' = IF enable_cache THEN CacheClear(cache) ELSE cache
    /\ last' = [Idle EXCEPT !.op = "clear_cache", !.pre = cache]
    /\ UNCHANGED <<now, stored, enable_cache, provider_name, memvars, provvars>>

\* AIService.get_cache_stats
GetCacheStats ==
    /\ last' = IF enable_cache
               THEN [Idle EXCEPT !.op = "get_cache_stats", !.pre = cache,
                                 !.size = CacheStats(cache).size, !.ttl = CacheStats(cache).ttl]
               ELSE [Idle EXCEPT !.op = "get_cache_stats", !.pre = cache]
    /\ UNCHANGED <<cache, now, stored, enable_cache, provider_name, memvars, provvars>>

\* plain and contextual chats
Next ==
    \/ Tick
    \/ \E pm \in ChatCalls, uc \in BOOLEAN, net \in NetOutcomes : Chat(pm[1], pm[2], uc, net)
    \/ \E q \in Questions, td \in TaskDatas, net \in NetOutcomes : ChatWithContext(q, td, net)
    \/ ClearCache
    \/ GetCacheStats

Spec == Init /\ [][Next]_vars

\* agents, next to plain chats that send the prompt of an agent
NextAgent ==
    \/ Tick
    \/ \E name \in AgentNames, x \in Contexts, net \in NetOutcomes : ExecuteAgent(name, x, net)
    \/ \E x \in Contexts, net \in NetOutcomes :
          Chat(AgentTemplate(Benchmarking, x), None, TRUE, net)
    \/ ClearCache

SpecAgent == Init /\ [][NextAgent]_vars

\* summaries
NextSummarize ==
    \/ Tick
    \/ \E content \in Contents, net \in NetOutcomes : Summarize(content, net)
    \/ ClearCache

SpecSummarize == Init /\ [][NextSummarize]_vars

----------------------------------------------------------------------------
(* Conversation history: turns saved, read back and cleared in any order *)

MaxTurns == 3
UserIds == {1, 2}
SessionArgs == {NoSession, Given(1)}
\* the calls of save_conversation: user_id, role, message, session_id
RoleUser == Lit(<<"u","s","e","r">>)
RoleAssistant == Lit(<<"a","s","s","i","s","t","a","n","t">>)
SaveCalls ==
    {<<1, RoleUser, Lit(<<"A">>), Given(1)>>, <<1, RoleAssistant, Lit(<<"B">>), Given(1)>>,
     <<1, RoleUser, Lit(<<"C">>), Given(1)>>, <<1, RoleUser, Lit(<<"A">>), NoSession>>,
     <<2, RoleUser, Lit(<<"B">>), Given(1)>>, <<2, RoleAssistant, Lit(<<"C">>), NoSession>>}
Limits == {0, 2, 10}

InitMemory ==
    /\ cache = EmptyCache
    /\ now = 0
    /\ stored = NoHistory
    /\ enable_cache = TRUE
    /\ provider_name = "ollama"
    /\ last = Idle
    /\ FreshMemory
    /\ FreshProviders

\* the session ids a caller can hold: those it makes up and those the service made
KnownSessions == SessionArgs \cup {session_cache[u] : u \in DOMAIN session_cache}

SaveConversation ==
    /\ now < MaxTurns
    /\ \E call \in SaveCalls :
        LET r == SaveConversationCall(conversations, session_cache, call[1],
                                      call[2], call[3], call[4], 0, now)
        IN  /\ conversations' = r.conversations
            /\ session_cache' = r.session_cache
            /\ turns' = Append(turns, r.value)
            /\ mlast' = [NoCall EXCEPT !.op = "save_conversation", !.user_id = call[1],
                                       !.session_id = call[4],
                                       !.conversation = r.value, !.pre = conversations]
    /\ now' = now + 1
    /\ UNCHANGED <<aivars, provvars, dbvars, memories, saved>>

GetRecent ==
    /\ \E user_id \in UserIds, limit \in Limits, session_id \in KnownSessions :
        mlast' = [NoCall EXCEPT
                    !.op = "get_recent_conversations", !.user_id = user_id,
                    !.session_id = session_id, !.limit = limit,
                    !.result = GetRecentConversations(conversations, user_id, limit,
                                                      session_id),
                    !.pre = conversations]
    /\ UNCHANGED <<aivars, provvars, dbvars, now, conversations, memories, session_cache, turns, saved>>

ClearSession ==
    /\ \E user_id \in UserIds, session_id \in KnownSessions :
        /\ SessionTruthy(session_id)
        /\ conversations' = ClearSessionCall(conversations, user_id, session_id)
        /\ turns' = SelectSeq(turns, LAMBDA t :
                        ~(t.user_id = user_id /\ t.session_id = session_id))
        /\ mlast' = [NoCall EXCEPT !.op = "clear_session", !.user_id = user_id,
                                   !.session_id = session_id, !.pre = conversations]
    /\ UNCHANGED <<aivars, provvars, dbvars, now, memories, session_cache, saved>>

\* DELETE /clear-all of routes/memory.py
ClearAllData ==
    /\ \E user_id \in UserIds :
        /\ conversations' = ClearAllDataCall(conversations, user_id)
        /\ memories' = ClearAllDataCall(memories, user_id)
        /\ turns' = SelectSeq(turns, LAMBDA t : t.user_id # user_id)
        /\ saved' = [t \in {x \in DOMAIN saved : x[1] # user_id} |-> saved[t]]
        /\ mlast' = [NoCall EXCEPT !.op = "clear_all_data", !.user_id = user_id,
                                   !.pre = conversations]
    /\ UNCHANGED <<aivars, provvars, dbvars, now, session_cache>>

NextConversations ==
    \/ SaveConversation
    \/ GetRecent
    \/ ClearSession
    \/ ClearAllData

SpecConversations == InitMemory /\ [][NextConversations]_vars

----------------------------------------------------------------------------
(* Long-term memory: facts saved in any order *)

MaxSaves == 3
Theme == Lit(<<"t","h","e","m","e">>)
Language == Lit(<<"l","a","n","g","u","a","g","e">>)
MemoryTriples ==
    {<<1, "preference", Theme>>, <<1, "preference", Language>>,
     <<1, "goal", Theme>>, <<2, "preference", Theme>>}
MemoryValues == {Lit(<<"d","a","r","k">>), Lit(<<"l","i","g","h","t">>)}
Confidences == {100, 50}

SaveMemory ==
    /\ now < MaxSaves
    /\ \E tr \in MemoryTriples, value \in MemoryValues, confidence \in Confidences :
       \E memory \in FirstMemory(memories, tr[1], tr[2], tr[3]) :
        LET r == SaveMemoryCall(memories, memory, tr[1], tr[2], tr[3], value,
                                confidence, now)
        IN  /\ memories' = r.memories
            /\ saved' = [t \in DOMAIN saved \cup {tr} |->
                            IF t = tr THEN [value |-> value, confidence |-> confidence]
                            ELSE saved[t]]
            /\ mlast' = [NoCall EXCEPT !.op = "save_memory", !.user_id = tr[1],
                                       !.triple = tr, !.memory = r.value,
                                       !.pre = memories, !.at = now]
    /\ now' = now + 1
    /\ UNCHANGED <<aivars, provvars, dbvars, conversations, session_cache, turns>>

DeleteMemory ==
    /\ \E user_id \in UserIds, memory_id \in 1..MaxSaves :
        LET r == DeleteMemoryCall(memories, user_id, memory_id)
            gone == {<<m.user_id, m.memory_type, m.key>> : m \in memories \ r.memories}
        IN  /\ memories' = r.memories
            /\ saved' = [t \in DOMAIN saved \ gone |-> saved[t]]
            /\ mlast' = [NoCall EXCEPT !.op = "delete_memory", !.user_id = user_id,
                                       !.deleted = r.value, !.pre = memories]
    /\ UNCHANGED <<aivars, provvars, dbvars, now, conversations, session_cache, turns>>

GetMemory ==
    /\ now < MaxSaves
    /\ \E tr \in MemoryTriples :
       \E memory \in FirstMemory(memories, tr[1], tr[2], tr[3]) :
        LET r == GetMemoryCall(memories, memory, now) IN
        /\ memories' = r.memories
        /\ now' = IF memory # NoMemory THEN now + 1 ELSE now
        /\ mlast' = [NoCall EXCEPT !.op = "get_memory", !.user_id = tr[1],
                                   !.triple = tr, !.memory = r.value,
                                   !.pre = memories, !.at = now]
    /\ UNCHANGED <<aivars, provvars, dbvars, conversations, session_cache, turns, saved>>

NextMemories ==
    \/ SaveMemory
    \/ DeleteMemory
    \/ GetMemory

SpecMemories == InitMemory /\ [][NextMemories]_vars

----------------------------------------------------------------------------
(* Long-term memory read back: the facts of a user by group and by search *)

MaxFacts == 3
FactTriples == {<<1, "preference", Theme>>, <<1, "goal", Language>>, <<2, "preference", Theme>>}
FactValue == Lit(<<"d","a","r","k">>)
MemoryQueries == {Lit(<<"t","h","e">>), <<>>}
SearchLimit == 5

SaveUserMemory ==
    /\ now < MaxFacts
    /\ \E tr \in FactTriples :
       \E memory \in FirstMemory(memories, tr[1], tr[2], tr[3]) :
        LET r == SaveMemoryCall(memories, memory, tr[1], tr[2], tr[3], FactValue, 100, now)
        IN  /\ memories' = r.memories
            /\ saved' = [t \in DOMAIN saved \cup {tr} |->
                            IF t = tr THEN [value |-> FactValue, confidence |-> 100]
                            ELSE saved[t]]
            /\ mlast' = [NoCall EXCEPT !.op = "save_memory", !.user_id = tr[1],
                                       !.triple = tr, !.memory = r.value,
                                       !.pre = memories, !.at = now]
    /\ now' = now + 1
    /\ UNCHANGED <<aivars, provvars, dbvars, conversations, session_cache, turns>>

DeleteUserMemory ==
    /\ \E user_id \in UserIds, memory_id \in 1..(MaxFacts + 1) :
        LET r == DeleteMemoryCall(memories, user_id, memory_id)
            gone == {<<m.user_id, m.memory_type, m.key>> : m \in memories \ r.memories}
        IN  /\ memories' = r.memories
            /\ saved' = [t \in DOMAIN saved \ gone |-> saved[t]]
            /\ mlast' = [NoCall EXCEPT !.op = "delete_memory", !.user_id = user_id,
                                       !.deleted = r.value, !.pre = memories,
                                       !.at = memory_id]
    /\ UNCHANGED <<aivars, provvars, dbvars, now, conversations, session_cache, turns>>

GetUserMemory ==
    /\ now < MaxFacts
    /\ \E tr \in FactTriples :
       \E memory \in FirstMemory(memories, tr[1], tr[2], tr[3]) :
        LET r == GetMemoryCall(memories, memory, now) IN
        /\ memories' = r.memories
        /\ now' = IF memory # NoMemory THEN now + 1 ELSE now
        /\ mlast' = [NoCall EXCEPT !.op = "get_memory", !.user_id = tr[1],
                                   !.triple = tr, !.memory = r.value,
                                   !.pre = memories, !.at = now]
    /\ UNCHANGED <<aivars, provvars, dbvars, conversations, session_cache, turns, saved>>

GetAllMemories ==
    /\ \E user_id \in UserIds :
        mlast' = [NoCall EXCEPT !.op = "get_all_memories", !.user_id = user_id,
                                !.organized = GetAllMemoriesCall(memories, user_id),
                                !.pre = memories]
    /\ UNCHANGED <<aivars, provvars, dbvars, now, conversations, memories,
                   session_cache, turns, saved>>

SearchMemory ==
    /\ \E user_id \in UserIds, query \in MemoryQueries :
        mlast' = [NoCall EXCEPT !.op = "search_memories", !.user_id = user_id,
                                !.message = query,
                                !.result = SearchMemories(memories, user_id, query,
                                                          SearchLimit),
                                !.pre = memories]
    /\ UNCHANGED <<aivars, provvars, dbvars, now, conversations, memories,
                   session_cache, turns, saved>>

NextMemoryReads ==
    \/ SaveUserMemory
    \/ DeleteUserMemory
    \/ GetUserMemory
    \/ GetAllMemories
    \/ SearchMemory

SpecMemoryReads == InitMemory /\ [][NextMemoryReads]_vars

----------------------------------------------------------------------------
(* save_memory of concurrent requests: each request has a session of its own, so
   the lookup of one and the commit of another come in any order *)

MaxSavers == 3
SaverTriples == {<<1, "preference", Theme>>, <<1, "goal", Theme>>}

\* a request inside save_memory: what first() returned and what it is about to commit
Saver(triple, memory, value) == [pc |-> "commit", triple |-> triple, memory |-> memory, value |-> value, error |-> FALSE]

OutsideMemories == <<aivars, provvars, now, conversations, session_cache, turns, saved, mlast, users, tasks, shares>>

\* memory = UserMemory.query.filter_by(...).first()
SaveLookup ==
    /\ Len(procs) < MaxSavers
    /\ \E tr \in SaverTriples, value \in MemoryValues :
       \E memory \in FirstMemory(memories, tr[1], tr[2], tr[3]) :
        procs' = Append(procs, Saver(tr, memory, value))
    /\ UNCHANGED <<memories, OutsideMemories>>

\* the rest of save_memory: the row changed or added, and db.session.commit()
SaveCommit ==
    /\ \E i \in DOMAIN procs :
        /\ procs[i].pc = "commit"
        /\ LET p == procs[i]
               r == CommitMemory(memories, p.memory, p.triple[1], p.triple[2],
                                 p.triple[3], p.value, 100, now)
           IN  /\ memories' = r.memories
               /\ procs' = [procs EXCEPT ![i].pc = "done", ![i].error = r.error]
    /\ UNCHANGED OutsideMemories

NextSavers ==
    \/ SaveLookup
    \/ SaveCommit

SpecSavers == InitMemory /\ [][NextSavers]_vars

----------------------------------------------------------------------------
(* The provider adapters on their own: chat, get_models and stream_chat *)

MaxLines == 3
Adapters == {"ollama", "lmstudio", "openai"}
StreamingAdapters == {"ollama", "lmstudio"}
AdapterOutcomes ==
    NetOutcomes \cup {[kind |-> "http_error", status |-> 429, body |-> "text"],
                      [kind |-> "http_error", status |-> 500, body |-> "none"]}
Lines == {Line("blank", ""), Line("chunk", "a"), Line("chunk", "b"),
          Line("malformed", ""), Line("done", "")}

\* a caller makes one adapter call at a time: none while it reads a stream, and the
\* stream it has finished with is dropped
AdapterChatCall ==
    /\ stream.state # "open"
    /\ stream' = NoStream
    /\ \E prov \in Adapters, net \in AdapterOutcomes :
        LET r == AdapterChat(prov, Lit(<<"b">>), None, 0, net) IN
        plast' = [NoProviderCall EXCEPT !.op = "chat", !.provider = prov,
                                        !.net = net.kind, !.http = net.status,
                                        !.status = r.status, !.raised = ~r.ok]
    /\ UNCHANGED <<aivars, now, memvars>>

GetModels ==
    /\ stream.state # "open"
    /\ stream' = NoStream
    /\ \E prov \in Adapters, net \in AdapterOutcomes :
        LET r == AdapterGetModels(prov, net) IN
        plast' = [NoProviderCall EXCEPT !.op = "get_models", !.provider = prov,
                                        !.net = net.kind, !.http = net.status,
                                        !.raised = r.raised, !.models = r.models]
    /\ UNCHANGED <<aivars, now, memvars>>

\* stream_chat is called and the provider answers 200 with some lines
StreamChat ==
    /\ stream.state # "open"
    /\ \E prov \in StreamingAdapters, n \in 0..MaxLines :
       \E lines \in [1..n -> Lines] :
        /\ stream' = OpenStream(prov, lines)
        /\ plast' = [NoProviderCall EXCEPT !.op = "stream_chat", !.provider = prov,
                                           !.net = "ok", !.http = 200]
    /\ UNCHANGED <<aivars, now, memvars>>

\* the caller asks the generator for its next fragment, or the generator runs to its end
StreamNext ==
    /\ stream.state = "open"
    /\ stream' = StreamStep(stream)
    /\ UNCHANGED <<aivars, now, memvars, plast>>

NextProviders ==
    \/ AdapterChatCall
    \/ GetModels
    \/ StreamChat
    \/ StreamNext

SpecProviders == InitMemory /\ [][NextProviders]_vars

----------------------------------------------------------------------------
(* format_context_for_ai on the contexts of a bounded family *)

MaxContextTurns == 7
MaxContextTasks == 6

Digit(i) == <<"0", "1", "2", "3", "4", "5", "6", "7", "8", "9">>[(i % 10) + 1]

\* the i-th turn of a context: the roles alternate, the messages are 98, 99, 100, ...
\* characters long and differ in their first character
ContextTurn(i) ==
    ConversationHistory(1, Given(1), IF i % 2 = 1 THEN RoleUser ELSE RoleAssistant,
                        Cat(Lit(<<Digit(i)>>), Fill("m", 96 + i)), 0, i)

\* the i-th task of a context: the odd ones are urgent
ContextTask(i) ==
    Task(i, 1, Cat(Lit(<<"j", "o", "b">>), Lit(<<Digit(i)>>)),
         IF i % 2 = 1 THEN Text("todo") ELSE Text("in-progress"), i % 2 = 1, i)

Ada == Profile(Lit(<<"A", "d", "a">>), Text("researcher"), Text("ada@example.org"))

FormatInputs ==
    {Context(user_profile, preferences, [i \in 1..turn_count |-> ContextTurn(i)],
             [i \in 1..task_count |-> ContextTask(i)], relevant_memories, Lit(<<"h", "i">>)) :
        user_profile \in {EmptyProfile, Ada},
        preferences \in {<<>>, <<Cat(Cat(Theme, Lit(<<":", " ">>)), Lit(<<"d", "a", "r", "k">>))>>},
        turn_count \in 0..MaxContextTurns,
        task_count \in {0, 2, MaxContextTasks},
        relevant_memories \in {<<>>, <<UserMemory(1, 1, "fact", Language,
                                                  Lit(<<"d", "a", "r", "t">>), 100, 0)>>}}

InitFormat ==
    /\ cache = EmptyCache
    /\ now = 0
    /\ stored = NoHistory
    /\ enable_cache = TRUE
    /\ provider_name = "ollama"
    /\ last = Idle
    /\ conversations = {}
    /\ memories = {}
    /\ session_cache = <<>>
    /\ turns = <<>>
    /\ saved = <<>>
    /\ mlast \in {[NoCall EXCEPT !.context = context] : context \in FormatInputs}
    /\ users = {}
    /\ tasks = {}
    /\ shares = {}
    /\ procs = <<>>
    /\ FreshProviders

\* memory_service.format_context_for_ai(context)
FormatContext ==
    /\ mlast.op = "none"
    /\ mlast' = [mlast EXCEPT !.op = "format_context_for_ai",
                              !.parts = FormatParts(mlast.context),
                              !.text = FormatContextForAI(mlast.context)]
    /\ UNCHANGED <<aivars, provvars, dbvars, now, conversations, memories, session_cache,
                   turns, saved>>

NextFormat == FormatContext

SpecFormat == InitFormat /\ [][NextFormat]_vars

----------------------------------------------------------------------------
(* build_ai_context over the rows that saves leave *)

MaxContextSaves == 2

\* the save_conversation calls of this specification
ContextSaveCalls ==
    {<<1, RoleUser, Lit(<<"A">>), Given(1)>>, <<1, RoleAssistant, Lit(<<"B">>), NoSession>>,
     <<2, RoleUser, Lit(<<"C">>), Given(1)>>}

Dark == Lit(<<"d", "a", "r", "k">>)
Light == Lit(<<"l", "i", "g", "h", "t">>)
Fonts == Lit(<<"f", "o", "n", "t", "s">>)

\* the memories that seven save_memory calls left, at the instants -7 .. -1
RichMemories ==
    {UserMemory(1, 1, "preference", Theme, Dark, 100, -7),
     UserMemory(2, 1, "goal", Theme, Dark, 90, -6),
     UserMemory(3, 1, "preference", Language, Dark, 80, -5),
     UserMemory(4, 1, "goal", Language, Dark, 70, -4),
     UserMemory(5, 1, "preference", Fonts, Light, 100, -3),
     UserMemory(6, 1, "fact", Fonts, Light, 60, -2),
     UserMemory(7, 2, "preference", Theme, Light, 100, -1)}

MemoryTables == {{}, RichMemories}

UserRows == {User(1, Lit(<<"A", "d", "a">>), Text("researcher"), Text("ada@example.org"))}

TaskRows ==
    {Task(1, 1, Lit(<<"j", "o", "b", "1">>), Text("todo"), FALSE, 2),
     Task(2, 1, Lit(<<"j", "o", "b", "2">>), Text("in-progress"), TRUE, 5),
     Task(3, 1, Lit(<<"j", "o", "b", "3">>), Text("done"), TRUE, 1),
     Task(4, 2, Lit(<<"j", "o", "b", "4">>), Text("todo"), FALSE, 1)}

\* the messages of build_ai_context: one without a word longer than 4 characters, one
\* whose first long words repeat, one with three long words
ContextMessages ==
    {Lit(<<"h", "i">>),
     Join(Lit(<<" ">>), <<Theme, Theme, Theme, Language>>),
     Join(Lit(<<" ">>), <<Theme, Language, Light>>)}

InitContext ==
    /\ cache = EmptyCache
    /\ now = 0
    /\ stored = NoHistory
    /\ enable_cache = TRUE
    /\ provider_name = "ollama"
    /\ last = Idle
    /\ conversations = {}
    /\ memories \in MemoryTables
    /\ session_cache = <<>>
    /\ turns = <<>>
    /\ saved = <<>>
    /\ mlast = NoCall
    /\ users = UserRows
    /\ tasks = TaskRows
    /\ shares = {}
    /\ procs = <<>>
    /\ FreshProviders

\* memory_service.save_conversation(user_id, role, message, session_id)
SaveContextTurn ==
    /\ now < MaxContextSaves
    /\ \E call \in ContextSaveCalls :
        LET r == SaveConversationCall(conversations, session_cache, call[1],
                                      call[2], call[3], call[4], 0, now)
        IN  /\ conversations' = r.conversations
            /\ session_cache' = r.session_cache
            /\ turns' = Append(turns, r.value)
            /\ mlast' = [NoCall EXCEPT !.op = "save_conversation", !.user_id = call[1],
                                       !.session_id = call[4],
                                       !.conversation = r.value, !.pre = conversations]
    /\ now' = now + 1
    /\ UNCHANGED <<aivars, provvars, dbvars, memories, saved>>

\* memory_service.build_ai_context(user_id, message, session_id) and
\* memory_service.format_context_for_ai of what it returned; nth counts the calls with
\* the same arguments that follow one another, up to 2
BuildContext ==
    /\ \E user_id \in UserIds, message \in ContextMessages, session_id \in KnownSessions :
        LET r == BuildAiContextCall(users, tasks, memories, conversations, session_cache,
                                    user_id, message, session_id, now)
            again == /\ mlast.op = "build_ai_context"
                     /\ mlast.user_id = user_id
                     /\ mlast.message = message
                     /\ mlast.session_id = session_id
        IN  /\ conversations' = r.conversations
            /\ memories' = r.memories
            /\ session_cache' = r.session_cache
            /\ mlast' = [NoCall EXCEPT
                            !.op = "build_ai_context", !.user_id = user_id,
                            !.session_id = session_id, !.message = message,
                            !.context = r.value, !.parts = FormatParts(r.value),
                            !.text = FormatContextForAI(r.value),
                            !.nth = IF again THEN 2 ELSE 1,
                            !.pre = conversations]
    /\ UNCHANGED <<aivars, provvars, dbvars, now, turns, saved>>

NextContext == SaveContextTurn \/ BuildContext

SpecContext == InitContext /\ [][NextContext]_vars

----------------------------------------------------------------------------
(* Requests to /api/auth and /api/tasks *)

MaxTasks == 1

EmailA == Lit(<<"a", "@", "x", ".", "i", "o">>)
EmailB == Lit(<<"b", "@", "x", ".", "i", "o">>)
Secret == Fill("p", 8)

\* two new users, a second user for the email of the first, and a body with no email
Registrations ==
    {Registration(Lit(<<"A", "n", "n">>), EmailA, Secret),
     Registration(Lit(<<"B", "o", "b">>), EmailB, Secret),
     Registration(Lit(<<"E", "v", "e">>), EmailA, Secret),
     Registration(Lit(<<"A", "n", "n">>), Lit(<<"n", "o", "p", "e">>), Secret)}

Job == Lit(<<"j", "o", "b">>)

CreateDatas ==
    {Data({"title", "assignee_id"}, Job, <<>>, FALSE, 1, <<>>),
     Data({"status"}, <<>>, Text("todo"), FALSE, 0, <<>>)}

\* the bodies of PUT /api/tasks/<id> and PATCH /api/tasks/<id>/status
UpdateDatas ==
    {Data({"status"}, <<>>, Text("done"), FALSE, 0, <<>>),
     Data({"status"}, <<>>, Text("in_progress"), FALSE, 0, <<>>),
     Data({"status"}, <<>>, Text("completed"), FALSE, 0, <<>>),
     Data({"title", "status"}, Lit(<<"n", "e", "w">>), Text("in-progress"), FALSE, 0, <<>>)}


\* the cookies a client can send: none, a forged one, or one that register set
Tokens == {NoToken, BadToken} \cup {AccessToken(u.id) : u \in users}

TaskIds == 1..(MaxTasks + 1)

\* the record of a request: what was sent, what the rows were, what came back
Request(op, token, data, r) ==
    [NoCall EXCEPT !.op = op, !.token = token, !.data = data,
                   !.status_code = r.status_code, !.executed = r.executed,
                   !.task = r.task, !.user = r.user,
                   !.users_pre = users, !.tasks_pre = tasks]

\* POST /api/auth/register
Register ==
    /\ \E data \in Registrations :
        LET r == RegisterCall(users, tasks, data) IN
        /\ users' = r.users
        /\ tasks' = r.tasks
        /\ mlast' = [Request("POST /api/auth/register", NoToken, NoData, r)
                        EXCEPT !.message = data.email]
    /\ UNCHANGED <<aivars, provvars, now, conversations, memories, session_cache, turns,
                   saved, shares, procs>>

\* GET /api/auth/me
GetMe ==
    /\ \E token \in Tokens :
        LET r == JwtRequired(token, users, tasks, GetCurrentUserCall(users, tasks, token)) IN
        /\ users' = r.users
        /\ tasks' = r.tasks
        /\ mlast' = Request("GET /api/auth/me", token, NoData, r)
    /\ UNCHANGED <<aivars, provvars, now, conversations, memories, session_cache, turns,
                   saved, shares, procs>>

\* POST /api/tasks
CreateTask ==
    /\ Cardinality(tasks) < MaxTasks
    /\ \E token \in Tokens, data \in CreateDatas :
        LET r == TokenRequired(token, TRUE, users, tasks, CreateTaskCall(users, tasks, data)) IN
        /\ users' = r.users
        /\ tasks' = r.tasks
        /\ mlast' = Request("POST /api/tasks", token, data, r)
    /\ UNCHANGED <<aivars, provvars, now, conversations, memories, session_cache, turns,
                   saved, shares, procs>>

\* PUT /api/tasks/<task_id>
UpdateTask ==
    /\ \E token \in Tokens, task_id \in TaskIds, data \in UpdateDatas :
        LET r == TokenRequired(token, TRUE, users, tasks,
                               UpdateTaskCall(users, tasks, task_id, data)) IN
        /\ users' = r.users
        /\ tasks' = r.tasks
        /\ mlast' = [Request("PUT /api/tasks/<id>", token, data, r) EXCEPT !.at = task_id]
    /\ UNCHANGED <<aivars, provvars, now, conversations, memories, session_cache, turns,
                   saved, shares, procs>>

\* PATCH /api/tasks/<task_id>/status: update_task_status(task_id) has no parameter
\* current_user_id
UpdateTaskStatus ==
    /\ \E token \in Tokens, task_id \in TaskIds, data \in UpdateDatas :
        LET r == TokenRequired(token, FALSE, users, tasks,
                               UpdateTaskStatusCall(users, tasks, task_id, data)) IN
        /\ users' = r.users
        /\ tasks' = r.tasks
        /\ mlast' = [Request("PATCH /api/tasks/<id>/status", token, data, r)
                        EXCEPT !.at = task_id]
    /\ UNCHANGED <<aivars, provvars, now, conversations, memories, session_cache, turns,
                   saved, shares, procs>>

NextRoutes == Register \/ GetMe \/ CreateTask \/ UpdateTask \/ UpdateTaskStatus

SpecRoutes == InitMemory /\ [][NextRoutes]_vars

----------------------------------------------------------------------------
(* Requests to the share links of a task; the users, the task and the share rows
   are the database as the process finds it *)

MaxAccesses == 2

Ann == User(1, Lit(<<"A", "n", "n">>), Text("Developer"), EmailA)
Bob == User(2, Lit(<<"B", "o", "b">>), Text("Developer"), EmailB)

\* the links of Ann to her task: view, edit (expiring), admin, and one revoked
ShareRows ==
    {TaskShare(1, 1, 1, Text("v"), "view", 30, FALSE),
     TaskShare(2, 1, 1, Text("e"), "edit", 1, FALSE),
     TaskShare(3, 1, 1, Text("a"), "admin", 30, FALSE),
     TaskShare(4, 1, 1, Text("r"), "admin", 30, TRUE)}

ShareTokens == {sh.share_token : sh \in ShareRows} \cup {Text("x")}
SessionTokens == {NoToken, AccessToken(1), AccessToken(2)}
ShareDatas == {ShareData({"task_id", "permission"}, 1, "edit"), ShareData({}, 0, "")}
Note == Lit(<<"<", "b", ">", "n", "o">>)
SharedUpdates ==
    {Data({"status"}, <<>>, Text("done"), FALSE, 0, <<>>),
     Data({"description"}, <<>>, <<>>, FALSE, 0, Note),
     Data({"status", "description"}, <<>>, Text("done"), FALSE, 0, Note),
     NoData}

InitShares ==
    /\ cache = EmptyCache
    /\ now = 0
    /\ stored = NoHistory
    /\ enable_cache = TRUE
    /\ provider_name = "ollama"
    /\ last = Idle
    /\ conversations = {}
    /\ memories = {}
    /\ session_cache = <<>>
    /\ turns = <<>>
    /\ saved = <<>>
    /\ mlast = NoCall
    /\ users = {Ann, Bob}
    /\ tasks = {Task(1, 1, Job, Text("todo"), FALSE, 0)}
    /\ shares = ShareRows
    /\ procs = <<>>
    /\ FreshProviders

OutsideShares == <<aivars, provvars, conversations, memories, session_cache, turns, saved, procs>>

\* the record of a request to a share link
ShareRequest(op, token, share_token, data, r) ==
    [Request(op, token, data, r.response) EXCEPT !.text = share_token, !.pre = shares, !.at = now]

\* POST /api/tasks/share
ShareTask ==
    /\ \E token \in SessionTokens, data \in ShareDatas :
        LET r == ShareTaskRequest(token, users, tasks, shares, data, Text("n"), now) IN
        /\ users' = r.response.users
        /\ tasks' = r.response.tasks
        /\ shares' = r.shares
        /\ mlast' = [ShareRequest("POST /api/tasks/share", token, <<>>, NoData, r)
                        EXCEPT !.nth = Cardinality(data.has)]
    /\ UNCHANGED <<now, OutsideShares>>

\* GET /api/tasks/access/<share_token>
AccessSharedTask ==
    /\ now < MaxAccesses
    /\ \E share_token \in ShareTokens :
        LET r == AccessSharedTaskCall(users, tasks, shares, share_token, now) IN
        /\ users' = r.response.users
        /\ tasks' = r.response.tasks
        /\ shares' = r.shares
        /\ mlast' = ShareRequest("GET /api/tasks/access/<token>", NoToken, share_token, NoData, r)
    /\ now' = now + 1
    /\ UNCHANGED OutsideShares

\* PUT /api/tasks/update/<share_token>
UpdateSharedTask ==
    /\ \E share_token \in ShareTokens, data \in SharedUpdates :
        LET r == UpdateSharedTaskCall(users, tasks, shares, share_token, data, now) IN
        /\ users' = r.response.users
        /\ tasks' = r.response.tasks
        /\ shares' = r.shares
        /\ mlast' = ShareRequest("PUT /api/tasks/update/<token>", NoToken, share_token, data, r)
    /\ UNCHANGED <<now, OutsideShares>>

\* DELETE /api/tasks/revoke/<share_token>
RevokeShare ==
    /\ \E token \in SessionTokens, share_token \in ShareTokens :
        LET r == RevokeShareRequest(token, users, tasks, shares, share_token) IN
        /\ users' = r.response.users
        /\ tasks' = r.response.tasks
        /\ shares' = r.shares
        /\ mlast' = ShareRequest("DELETE /api/tasks/revoke/<token>", token, share_token, NoData, r)
    /\ UNCHANGED <<now, OutsideShares>>

NextShares ==
    \/ ShareTask
    \/ AccessSharedTask
    \/ UpdateSharedTask
    \/ RevokeShare

SpecShares == InitShares /\ [][NextShares]_vars

----------------------------------------------------------------------------
(* Claims *)

\* the pair and the key of the last operation
LastPair == <<last.prompt, last.model>>
LastKey == GenerateKey(last.prompt, last.model)
Size(c) == Cardinality(DOMAIN c)

\* C1: after set(p, m, r), a get(p, m) made while now - stored timestamp < ttl, with no
\* set under the same key and no clear in between, returns exactly r
C1_SetThenGet ==
    (last.op = "get" /\ LastPair \in DOMAIN stored
        /\ now - stored[LastPair].timestamp < Ttl)
    => last.value = stored[LastPair].response

\* a get at the age ttl - 1 returns the stored response while another entry has expired
C1_Witness ==
    /\ last.op = "get"
    /\ LastPair \in DOMAIN stored
    /\ now - stored[LastPair].timestamp = Ttl - 1
    /\ last.value = stored[LastPair].response
    /\ last.value # NoResp
    /\ Size(cache) = 2

\* C2: an entry whose age has reached ttl is never returned; the get that finds it returns
\* absent and deletes that entry alone (size one less), and a get changes no other entry
C2_LazyExpiry ==
    last.op = "get" =>
        /\ last.value # NoResp =>
                LastKey \in DOMAIN last.pre /\ now - last.pre[LastKey].timestamp < Ttl
        /\ (LastKey \in DOMAIN last.pre /\ now - last.pre[LastKey].timestamp >= Ttl) =>
                /\ last.value = NoResp
                /\ LastKey \notin DOMAIN cache
                /\ Size(cache) = Size(last.pre) - 1
        /\ \A k \in DOMAIN last.pre \ {LastKey} : k \in DOMAIN cache /\ cache[k] = last.pre[k]
        /\ DOMAIN cache \subseteq DOMAIN last.pre
        /\ (LastKey \in DOMAIN cache => cache[LastKey] = last.pre[LastKey])

\* a get finds an expired entry and purges it while another expired entry stays
C2_Witness ==
    /\ last.op = "get"
    /\ LastKey \in DOMAIN last.pre
    /\ now - last.pre[LastKey].timestamp >= Ttl
    /\ last.value = NoResp
    /\ Size(last.pre) = 3 /\ Size(cache) = 2
    /\ \E k \in DOMAIN cache : now - cache[k].timestamp >= Ttl

\* C3: two (prompt, model) pairs address one entry only if they are the same pair: a get
\* hits only when that very prompt was set under that very model
C3_DistinctPairsMiss ==
    (last.op = "get" /\ last.value # NoResp) =>
        /\ LastPair \in DOMAIN stored
        /\ last.value = stored[LastPair].response

\* every entry of c is an entry of d, unchanged
Within(c, d) == \A k \in DOMAIN c : k \in DOMAIN d /\ c[k] = d[k]

FailedChat == last.op = "chat" /\ last.nCalls = 1 /\ last.status # 200

\* C4 as claimed: a chat whose provider call fails raises and leaves the cache exactly as
\* it was, its size unchanged; a refused connection surfaces as 503
C4_FailureLeavesCacheAsItWas ==
    FailedChat =>
        /\ last.value = NoResp
        /\ cache = last.pre
        /\ Size(cache) = Size(last.pre)
        /\ last.net = "refused" => last.status = 503

\* C4 as amended: a chat whose provider call fails raises, and the cache gains and changes
\* no entry and holds none under the call's key when the call used the cache; the one entry
\* that can be gone is an expired entry under the call's own key, which the lookup before
\* the provider call evicted, so the size is unchanged or one less; a refused connection
\* surfaces as 503
C4_FailureCachesNothing ==
    FailedChat =>
        /\ last.value = NoResp
        /\ last.status \in {500, 503, 504, 429}
        /\ Within(cache, last.pre)
        /\ \A k \in DOMAIN last.pre \ DOMAIN cache :
                /\ k = LastKey
                /\ now - last.pre[k].timestamp >= Ttl
                /\ enable_cache /\ last.use_cache
        /\ (enable_cache /\ last.use_cache) => LastKey \notin DOMAIN cache
        /\ Size(cache) \in {Size(last.pre), Size(last.pre) - 1}
        /\ last.net = "refused" => last.status = 503

\* a refused chat evicted the expired entry of its key and left another entry in place
C4_Witness ==
    /\ FailedChat
    /\ last.net = "refused" /\ last.status = 503
    /\ LastKey \in DOMAIN last.pre
    /\ Size(cache) = Size(last.pre) - 1
    /\ Size(cache) >= 1

\* the unexpired entries the cache held before the call that were stored for the very
\* prompt and model of the call
FreshFor(c, prompt, model) ==
    {k \in DOMAIN c : /\ c[k].response.answers = prompt
                      /\ c[k].response.model = model
                      /\ now - c[k].timestamp < Ttl}

\* C5: with caching enabled and use_cache true, chat(p, model) makes no provider call when
\* an unexpired entry exists for (p, effective model), and returns it; otherwise it makes
\* exactly one provider call and on success stores the response under (p, effective model)
C5_CacheBeforeProvider ==
    (last.op = "chat" /\ enable_cache /\ last.use_cache) =>
        IF FreshFor(last.pre, last.prompt, last.model) # {}
        THEN /\ last.nCalls = 0
             /\ \E k \in FreshFor(last.pre, last.prompt, last.model) :
                    last.value = last.pre[k].response
        ELSE /\ last.nCalls = 1
             /\ last.status = 200 =>
                    /\ LastKey \in DOMAIN cache
                    /\ cache[LastKey] = [response |-> last.value, timestamp |-> now]

\* C6: a contextual chat always calls the provider, never returns an entry of the cache,
\* and leaves the cache as it was: nothing added, removed or refreshed
C6_ContextualChatBypassesCache ==
    (last.op = "chat_with_context" \/ (last.op = "chat" /\ ~last.use_cache)) =>
        /\ last.nCalls = 1
        /\ last.nGets = 0 /\ last.nSets = 0
        /\ last.src # "cache"
        /\ last.status = 200 => last.src = "provider"
        /\ cache = last.pre

\* a contextual chat called the provider although the cache held an unexpired entry for
\* its prompt and model, next to an expired entry that stayed
C6_Witness ==
    /\ last.op = "chat_with_context"
    /\ enable_cache
    /\ last.status = 200
    /\ LastKey \in DOMAIN last.pre
    /\ now - last.pre[LastKey].timestamp < Ttl
    /\ \E k \in DOMAIN cache : now - cache[k].timestamp >= Ttl

\* C9: summarize(content) is rejected with status 400 exactly when content is empty,
\* shorter than 10 or longer than 50,000 characters, and then reads and writes no cache
\* entry and calls no provider; content of 10 and of 50,000 characters goes to chat
C9_SummarizeBounds ==
    last.op = "summarize" =>
        LET bad == ~Truthy(last.arg) \/ StrLen(last.arg) < 10 \/ StrLen(last.arg) > 50000 IN
        /\ last.status = 400 <=> bad
        /\ bad => /\ last.nCalls = 0 /\ last.nGets = 0 /\ last.nSets = 0
                  /\ last.value = NoResp
                  /\ cache = last.pre
        /\ ~bad => /\ last.prompt = SummarizePrompt(last.arg)
                   /\ last.nGets = IF enable_cache THEN 1 ELSE 0
                   /\ last.nCalls = 1 \/ last.src = "cache"

\* content of 50,001 characters is rejected while the cache holds the summaries of the
\* contents of 10 and of 50,000 characters
C9_Witness ==
    /\ last.op = "summarize"
    /\ StrLen(last.arg) = 50001
    /\ last.status = 400
    /\ GenerateKey(SummarizePrompt(Fill("x", 10)), Phi3) \in DOMAIN cache
    /\ GenerateKey(SummarizePrompt(Fill("x", 50000)), Phi3) \in DOMAIN cache

Triple(m) == <<m.user_id, m.memory_type, m.key>>
RowsOf(rows, tr) == {m \in rows : Triple(m) = tr}

\* C7: each triple that was saved has exactly one UserMemory row, which holds the value
\* and the confidence of the latest save_memory of that triple; a save of a triple that
\* has a row adds no row, and the rows of the other triples stay as they were
C7_SaveMemoryUpserts ==
    /\ \A m \in memories : Triple(m) \in DOMAIN saved
    /\ \A tr \in DOMAIN saved :
        /\ Cardinality(RowsOf(memories, tr)) = 1
        /\ \A m \in RowsOf(memories, tr) :
            m.value = saved[tr].value /\ m.confidence = saved[tr].confidence
    /\ mlast.op = "save_memory" =>
        /\ RowsOf(mlast.pre, mlast.triple) # {} =>
                Cardinality(memories) = Cardinality(mlast.pre)
        /\ \A m \in mlast.pre : Triple(m) # mlast.triple => m \in memories
        /\ \A m \in memories : Triple(m) # mlast.triple => m \in mlast.pre
        /\ mlast.memory \in memories

\* a triple is saved again with another value and another confidence, next to the row
\* of another triple
C7_Witness ==
    /\ mlast.op = "save_memory"
    /\ Cardinality(mlast.pre) = 2
    /\ Cardinality(memories) = 2
    /\ \E m \in RowsOf(mlast.pre, mlast.triple) :
        /\ m.value # mlast.memory.value
        /\ m.confidence # mlast.memory.confidence
        /\ m.updated_at < mlast.memory.updated_at

\* what a caller sees of a turn
Seen(t) == [user_id |-> t.user_id, session_id |-> t.session_id, role |-> t.role,
            message |-> t.message]

\* the turns of the last call's user and session, in the order they were saved
TurnsOfLast ==
    SelectSeq(turns, LAMBDA t : /\ t.user_id = mlast.user_id
                                /\ t.session_id = mlast.session_id)

\* C8: get_recent_conversations(user, limit, session_id) returns the min(limit, n) turns
\* saved last in that session of the user, the oldest first, in the order they were saved
C8_RecentOldestFirst ==
    (mlast.op = "get_recent_conversations" /\ SessionTruthy(mlast.session_id)) =>
        LET n == Len(TurnsOfLast)
            k == IF mlast.limit < n THEN mlast.limit ELSE n
        IN  /\ Len(mlast.result) = k
            /\ \A i \in 1..k : Seen(mlast.result[i]) = Seen(TurnsOfLast[n - k + i])

\* of the turns A, B, C saved in one session, a read with limit 2 returns B, C
C8_Witness ==
    /\ mlast.op = "get_recent_conversations"
    /\ SessionTruthy(mlast.session_id)
    /\ mlast.limit = 2
    /\ Len(TurnsOfLast) = 3
    /\ [i \in 1..3 |-> TurnsOfLast[i].message] = <<Lit(<<"A">>), Lit(<<"B">>), Lit(<<"C">>)>>
    /\ [i \in 1..2 |-> mlast.result[i].message] = <<Lit(<<"B">>), Lit(<<"C">>)>>

\* C12: chat of every adapter reports a provider that refuses the connection with
\* status 503 and a request that runs over the timeout with status 504
C12_UnreachableAndTimeout ==
    plast.op = "chat" =>
        /\ plast.net = "refused" => (plast.raised /\ plast.status = 503)
        /\ plast.net = "timeout" => (plast.raised /\ plast.status = 504)

\* C13: chat of every adapter reports a response that is not 2xx with the HTTP status
\* the provider sent
C13_UpstreamStatus ==
    (plast.op = "chat" /\ plast.net = "http_error") =>
        (plast.raised /\ plast.status = plast.http)

\* C14: get_models of every adapter never raises and, when the provider cannot be
\* reached or answers with an error, returns a list that holds the default model
C14_ModelsHoldDefault ==
    plast.op = "get_models" =>
        /\ ~plast.raised
        /\ plast.net # "ok" =>
            \E i \in 1..Len(plast.models) : plast.models[i] = DefaultModel(plast.provider)

\* the fragments a reader of the lines is to receive: those of the well-formed chunks
\* that come before the end marker, in the order of arrival
RECURSIVE Fragments(_)
Fragments(lines) ==
    IF lines = <<>> \/ Head(lines).kind = "done" THEN <<>>
    ELSE IF Head(lines).kind = "chunk"
         THEN <<Head(lines).text>> \o Fragments(Tail(lines))
         ELSE Fragments(Tail(lines))

\* C15: stream_chat skips a chunk that cannot be parsed and goes on: at every moment it
\* has yielded the fragments of the well-formed chunks read so far up to the end
\* marker, in the order of arrival, and it never raises on a malformed chunk
C15_MalformedChunkSkipped ==
    stream.state # "none" =>
        /\ stream.state # "raised"
        /\ SelectSeq(stream.yielded, LAMBDA f : f # "")
                = Fragments(SubSeq(stream.lines, 1, stream.pos))

\* the row of the last call's triple before the call, and after it
TouchedBefore == RowsOf(mlast.pre, mlast.triple)
TouchedAfter == RowsOf(memories, mlast.triple)

\* C19: save_memory and get_memory on a memory that exists raise its access_count (by
\* one, for get_memory) and set its last_accessed to the time of the call; get_memory
\* of a triple that has no memory returns None and changes no row
C19_AccessTelemetry ==
    /\ (mlast.op \in {"save_memory", "get_memory"} /\ TouchedBefore # {}) =>
        \A b \in TouchedBefore : \A a \in TouchedAfter :
            /\ a.access_count > b.access_count
            /\ mlast.op = "get_memory" => a.access_count = b.access_count + 1
            /\ a.last_accessed = mlast.at
    /\ (mlast.op = "get_memory" /\ TouchedBefore = {}) =>
        (mlast.memory = NoMemory /\ memories = mlast.pre)

\* C20: a row of ConversationHistory is never modified, and it goes only by a
\* clear_session of its own user and session or by the clear-all of its user;
\* clear_session(u, s) removes the rows of user u in session s and no other
C20_AppendOnly ==
    [][/\ \A r \in conversations :
            \/ r \in conversations'
            \/ /\ mlast'.op = "clear_session"
               /\ r.user_id = mlast'.user_id /\ r.session_id = mlast'.session_id
            \/ /\ mlast'.op = "clear_all_data"
               /\ r.user_id = mlast'.user_id
       /\ mlast'.op = "clear_session" =>
            conversations' = {r \in conversations :
                                ~(/\ r.user_id = mlast'.user_id
                                  /\ r.session_id = mlast'.session_id)}
       /\ mlast'.op \in {"get_recent_conversations", "save_memory", "get_memory",
                         "delete_memory"} => conversations' = conversations
       /\ mlast'.op = "save_conversation" =>
            (conversations \subseteq conversations'
                /\ Cardinality(conversations') = Cardinality(conversations) + 1)
      ]_vars

\* clear_session of a user's session took its row and left the row of the user's other
\* session and the row of another user in a session of the same id
C20_Witness ==
    /\ mlast.op = "clear_session"
    /\ Cardinality(mlast.pre) = 3
    /\ Cardinality(conversations) = 2
    /\ \E r \in conversations : r.user_id = mlast.user_id
    /\ \E r \in conversations :
        r.user_id # mlast.user_id /\ r.session_id = mlast.session_id

\* the index of the part h in parts
IndexOf(parts, h) == CHOOSE i \in 1..Len(parts) : parts[i] = h

\* C18: format_context_for_ai puts the profile line first, then the sections for
\* preferences, active tasks (the urgent ones marked red, the others green), relevant
\* memories and the recent conversation, always in this order; a section with nothing in
\* it has no header and no line; the conversation section is the last 5 turns of the
\* context, oldest first, each message cut to its first 100 characters
C18_FormatSections ==
    mlast.op = "format_context_for_ai" =>
        LET context == mlast.context
            parts == mlast.parts
            convs == context.recent_conversations
            k == IF Len(convs) < 5 THEN Len(convs) ELSE 5
            shownTasks == IF Len(context.active_tasks) < ShownTasks
                          THEN Len(context.active_tasks) ELSE ShownTasks
            headers == <<PreferencesHeader, TasksHeader, MemoriesHeader, ConversationHeader>>
            Filled(h) == \/ h = PreferencesHeader /\ context.preferences # <<>>
                         \/ h = TasksHeader /\ context.active_tasks # <<>>
                         \/ h = MemoriesHeader /\ context.relevant_memories # <<>>
                         \/ h = ConversationHeader /\ convs # <<>>
            IsHeader(p) == \E i \in 1..4 : headers[i] = p
        IN  /\ SelectSeq(parts, IsHeader) = SelectSeq(headers, Filled)
            /\ Len(parts) = (IF context.user_profile.empty THEN 0 ELSE 1)
                            + Len(SelectSeq(headers, Filled)) + Len(context.preferences)
                            + shownTasks + Len(context.relevant_memories) + k
            /\ ~context.user_profile.empty =>
                parts[1] = Cat(Cat(Cat(Cat(Text("User: "), context.user_profile.name),
                                       Lit(<<" ", "(">>)), context.user_profile.role),
                               Lit(<<")">>))
            /\ \A i \in 1..Len(context.preferences) :
                parts[IndexOf(parts, PreferencesHeader) + i]
                    = Cat(Lit(<<"-", " ">>), context.preferences[i])
            /\ \A i \in 1..shownTasks :
                LET task == context.active_tasks[i]
                    line == parts[IndexOf(parts, TasksHeader) + i]
                IN  /\ line[1].c = (IF task.urgent THEN "red" ELSE "green")
                    /\ Tail(line) = Cat(Cat(Cat(Cat(Lit(<<" ">>), task.title),
                                                Lit(<<" ", "(">>)), task.status),
                                        Lit(<<")">>))
            /\ \A i \in 1..Len(context.relevant_memories) :
                parts[IndexOf(parts, MemoriesHeader) + i]
                    = Cat(Cat(Cat(Lit(<<"-", " ">>), context.relevant_memories[i].key),
                              Lit(<<":", " ">>)), context.relevant_memories[i].value)
            /\ k > 0 => parts[Len(parts) - k] = ConversationHeader
            /\ \A j \in 1..k :
                LET conv == convs[Len(convs) - k + j] IN
                parts[Len(parts) - k + j]
                    = Cat(Cat(Capitalize(conv.role), Lit(<<":", " ">>)),
                          Take(conv.message, 100))
            /\ mlast.text = Join(Lit(<<"\n">>), parts)

\* a context with a profile, no preference, six tasks, a memory and seven turns, the
\* last of more than 100 characters, was formatted
C18_Witness ==
    /\ mlast.op = "format_context_for_ai"
    /\ ~mlast.context.user_profile.empty
    /\ mlast.context.preferences = <<>>
    /\ Len(mlast.context.active_tasks) = 6
    /\ \E i, j \in 1..5 : /\ mlast.context.active_tasks[i].urgent
                          /\ ~mlast.context.active_tasks[j].urgent
    /\ mlast.context.relevant_memories # <<>>
    /\ Len(mlast.context.recent_conversations) = 7
    /\ StrLen(mlast.context.recent_conversations[7].message) > 100
    /\ Len(mlast.parts) = 1 + 6 + 2 + 6

\* the items of xs, each at its first place only
RECURSIVE Distinct(_, _)
Distinct(xs, seen) ==
    IF xs = <<>> THEN <<>>
    ELSE IF xs[1] \in seen THEN Distinct(Tail(xs), seen)
    ELSE <<xs[1]>> \o Distinct(Tail(xs), seen \cup {xs[1]})

\* the ids of a list of memories
Ids(ms) == [i \in 1..Len(ms) |-> ms[i].id]

\* the first two memories of the user that hold the keyword, by falling confidence
Found(keyword, user_id) == SearchMemories(memories, user_id, keyword, 2)

\* C16: the relevant_memories of build_ai_context are the memories found for the first
\* 3 distinct words of the message longer than 4 characters, at most 2 for each word,
\* each memory once, at most 5 in all
C16_RelevantMemories ==
    mlast.op = "build_ai_context" =>
        LET long == SelectSeq(Split(mlast.message), LAMBDA word : StrLen(word) > 4)
            lowered == [i \in 1..Len(long) |-> Lower(long[i])]
            keywords == FirstK(Distinct(lowered, {}), 3)
            found == IF keywords = <<>> THEN <<>>
                     ELSE IF Len(keywords) = 1 THEN Ids(Found(keywords[1], mlast.user_id))
                     ELSE IF Len(keywords) = 2
                     THEN Ids(Found(keywords[1], mlast.user_id))
                            \o Ids(Found(keywords[2], mlast.user_id))
                     ELSE Ids(Found(keywords[1], mlast.user_id))
                            \o Ids(Found(keywords[2], mlast.user_id))
                            \o Ids(Found(keywords[3], mlast.user_id))
            relevant == Ids(mlast.context.relevant_memories)
        IN  /\ relevant = FirstK(Distinct(found, {}), 5)
            /\ Len(relevant) <= 5
            /\ \A i, j \in 1..Len(relevant) : relevant[i] = relevant[j] => i = j

\* C17: the recent_conversations of build_ai_context are at most 10 turns of the user,
\* all of one session (the given one, or the user's current one when none is given),
\* oldest first
C17_OneSession ==
    mlast.op = "build_ai_context" =>
        LET recent == mlast.context.recent_conversations IN
        /\ Len(recent) <= 10
        /\ \A i \in 1..Len(recent) : recent[i].user_id = mlast.user_id
        /\ \A i, j \in 1..Len(recent) : recent[i].session_id = recent[j].session_id
        /\ SessionTruthy(mlast.session_id) =>
            \A i \in 1..Len(recent) : recent[i].session_id = mlast.session_id
        /\ (~SessionTruthy(mlast.session_id) /\ mlast.user_id \in DOMAIN session_cache) =>
            \A i \in 1..Len(recent) : recent[i].session_id = session_cache[mlast.user_id]
        /\ \A i, j \in 1..Len(recent) : i < j => recent[i].created_at < recent[j].created_at

C21_StableSession ==
    [][/\ \A u \in DOMAIN session_cache :
            u \in DOMAIN session_cache' /\ session_cache'[u] = session_cache[u]
       /\ \A u, v \in DOMAIN session_cache' :
            u # v => session_cache'[u] # session_cache'[v]
       /\ mlast'.op = "save_conversation" =>
            IF SessionTruthy(mlast'.session_id)
            THEN /\ mlast'.conversation.session_id = mlast'.session_id
                 /\ session_cache' = session_cache
            ELSE /\ mlast'.user_id \in DOMAIN session_cache'
                 /\ mlast'.conversation.session_id = session_cache'[mlast'.user_id]
      ]_vars

\* three saves without session_id: the first and the third of one user, under the same
\* generated id, the second of the other user, under another generated id
C21_Witness ==
    /\ mlast.op = "save_conversation"
    /\ ~SessionTruthy(mlast.session_id)
    /\ Len(turns) = 3
    /\ turns[1].session_id.kind = "uuid4" /\ turns[2].session_id.kind = "uuid4"
    /\ turns[3].user_id = turns[1].user_id /\ turns[3].session_id = turns[1].session_id
    /\ turns[2].user_id # turns[1].user_id /\ turns[2].session_id # turns[1].session_id

\* the endpoints behind token_required or jwt_required
Protected ==
    {"GET /api/auth/me", "POST /api/tasks", "PUT /api/tasks/<id>",
     "PATCH /api/tasks/<id>/status"}

\* C23: a request to a protected endpoint without a valid access token gets 401, its
\* view does not run and no user or task changes; with a valid token the view runs
\* (unless the schema of the endpoint refused the body with 400)
C23_TokenGate ==
    mlast.op \in Protected =>
        IF mlast.token.kind # "access"
        THEN /\ mlast.status_code = 401
             /\ ~mlast.executed
             /\ users = mlast.users_pre /\ tasks = mlast.tasks_pre
        ELSE mlast.executed \/ (mlast.op = "POST /api/tasks" /\ mlast.status_code = 400)

\* C24: no two users share an email; a register request for an email that a user has
\* gets 409 and leaves the users as they were; a valid register request for a new email
\* gets 201 and adds exactly one user, with that email
C24_UniqueEmail ==
    /\ \A u, v \in users : u.email = v.email => u = v
    /\ mlast.op = "POST /api/auth/register" =>
        IF \E u \in mlast.users_pre : u.email = mlast.message
        THEN mlast.status_code = 409 /\ users = mlast.users_pre
        ELSE IF IsEmail(mlast.message)
        THEN /\ mlast.status_code = 201
             /\ mlast.users_pre \subseteq users
             /\ Cardinality(users) = Cardinality(mlast.users_pre) + 1
             /\ \E u \in users \ mlast.users_pre : u.email = mlast.message
        ELSE users = mlast.users_pre

\* two users are registered and a third request, for the email of one of them, got 409
C24_Witness ==
    /\ mlast.op = "POST /api/auth/register"
    /\ mlast.status_code = 409
    /\ Cardinality(users) = 2
    /\ \E u \in users : u.email = mlast.message /\ u.name # Lit(<<"E", "v", "e">>)

\* C25: a status update of an existing task by an authenticated user, by PUT
\* /api/tasks/<id> or PATCH /api/tasks/<id>/status, gets 200, the stored and the returned
\* status are the requested one, and the fields the request does not name stay
C25_StatusUpdate ==
    (/\ mlast.op \in {"PUT /api/tasks/<id>", "PATCH /api/tasks/<id>/status"}
     /\ mlast.token.kind = "access"
     /\ "status" \in mlast.data.has
     /\ \E t \in mlast.tasks_pre : t.id = mlast.at) =>
        /\ mlast.status_code = 200
        /\ mlast.task.status = mlast.data.status
        /\ \E t \in tasks, old \in mlast.tasks_pre :
            /\ t.id = mlast.at /\ old.id = mlast.at
            /\ t.status = mlast.data.status
            /\ "title" \notin mlast.data.has => t.title = old.title
            /\ t.urgent = old.urgent /\ t.assignee_id = old.assignee_id
            /\ t.description = old.description

\* C26: get_all_memories(u) returns every row of u whose memory_type is preference,
\* pattern, insight or goal, each once and in the group of its own type, no row of
\* another user, and as many entries in all as u has memories of those four types
MemoryTypes == {"preference", "pattern", "insight", "goal"}
GroupOf == [preference |-> "preferences", pattern |-> "patterns", insight |-> "insights", goal |-> "goals"]
Entries(organized) == {<<g, i>> : g \in DOMAIN organized, i \in 1..(MaxFacts + 1)}
C26_AllMemories ==
    mlast.op = "get_all_memories" =>
        LET organized == mlast.organized
            own == {r \in mlast.pre : r.user_id = mlast.user_id /\ r.memory_type \in MemoryTypes}
            entries == {x \in Entries(organized) : x[2] <= Len(organized[x[1]])}
        IN  /\ \A r \in own :
                /\ Cardinality({x \in entries : organized[x[1]][x[2]] = r}) = 1
                /\ \E x \in entries : organized[x[1]][x[2]] = r /\ x[1] = GroupOf[r.memory_type]
            /\ \A x \in entries : organized[x[1]][x[2]].user_id = mlast.user_id
            /\ Cardinality(entries) = Cardinality(own)


\* C29: delete_memory(u, id) removes the row with that id only when it belongs to u
\* and then returns true, otherwise returns false and deletes nothing; delete_memory,
\* search_memories and get_memory of one user never remove, return or change a row
\* of another user
Others(rows, user_id) == {r \in rows : r.user_id # user_id}
C29_OwnMemoriesOnly ==
    /\ mlast.op = "delete_memory" =>
        LET target == {r \in mlast.pre : r.id = mlast.at /\ r.user_id = mlast.user_id}
        IN  IF target # {}
            THEN mlast.deleted /\ memories = mlast.pre \ target
            ELSE ~mlast.deleted /\ memories = mlast.pre
    /\ mlast.op \in {"delete_memory", "search_memories", "get_memory"} =>
        /\ Others(memories, mlast.user_id) = Others(mlast.pre, mlast.user_id)
        /\ \A i \in DOMAIN mlast.result : mlast.result[i].user_id = mlast.user_id
        /\ mlast.memory # NoMemory => mlast.memory.user_id = mlast.user_id
    /\ mlast.op = "search_memories" => memories = mlast.pre

C29_Witness ==
    /\ mlast.op = "delete_memory"
    /\ ~mlast.deleted
    /\ \E r \in mlast.pre : r.id = mlast.at /\ r.user_id # mlast.user_id
    /\ \E r \in mlast.pre : r.user_id = mlast.user_id

\* C27: under any interleaving of get, set and clear of concurrent requests, the
\* steps of get being separate, get never fails with an error and never returns an
\* entry whose age has reached ttl
C27_GetNeverFails ==
    \A i \in DOMAIN procs :
        /\ ~procs[i].error
        /\ procs[i].pc = "done" /\ procs[i].value # NoResp => procs[i].age < Ttl

\* C28: when two save_memory calls for the same (user_id, memory_type, key) both do
\* their lookup before either commits, the table still has exactly one row for that
\* triple: the triple is unique in every reachable state
SameTriple(r, q) == r.user_id = q.user_id /\ r.memory_type = q.memory_type /\ r.key = q.key
ShareBefore == FirstShare(mlast.pre, mlast.text)
ShareAfter == FirstShare(shares, mlast.text)
ByCreator == mlast.token.kind = "access" /\ mlast.token.identity = ShareBefore.shared_by
DescriptionChanged == \E old \in mlast.tasks_pre, task \in tasks : task.id = old.id /\ task.description # old.description
====
